---- MODULE Spec2Model ----
(***************************************************************************)
(* AnalysisOrchestrator of repo_health_analyzer/core/orchestrator.py:      *)
(* register_step, execute_analysis (the fixed-point dependency scan) and   *)
(* _execute_step_method (the binding of a stage's inputs).                 *)
(***************************************************************************)
EXTENDS Integers, Sequences, FiniteSets, TLC

VARIABLES
    analysis_steps,   \* self.analysis_steps: the registered steps, in registration order
    context,          \* the context mapping handed to execute_analysis
    results,          \* results: step name -> result
    completed_steps,  \* completed_steps: set of step names
    pc,               \* where the caller is: idle, running, returned, unresolvable, stage_error
    remaining,        \* the names carried by the RuntimeError of line 98
    calls,            \* every invocation of a step's method, in order, as the method saw it
    api_instance,     \* self.api_instance: the progress object, or None
    \* ArchitectureAnalyzer.analyze and _calculate_architecture_metrics
    source_files,            \* the list handed to analyze
    dependency_graph,        \* module name -> set of dependency identifiers
    module_dependencies,     \* module name -> dependencies of the last file of that name
    class_hierarchy,         \* class name -> set of parent class names
    package_structure,       \* directory name -> list of module names
    design_patterns_found,   \* the keys of the Counter of detected patterns
    architecture_violations, \* the list of detected violations
    total_files,             \* the file count handed to _calculate_architecture_metrics
    visited,                 \* _detect_circular_dependencies: visited
    rec_stack,               \* _detect_circular_dependencies: rec_stack
    cycles,                  \* _detect_circular_dependencies: cycles
    dfs_stack,               \* the active calls of dfs: node and neighbours still to iterate
    metrics,                 \* the dict returned by _calculate_architecture_metrics
    report,                  \* the ArchitectureMetrics returned by analyze
    apc,                     \* where the analyzer is: idle, start, detect, metrics, returned, raised
    \* MetricsCalculator.calculate_overall_metrics
    dimensions,              \* the six dimension scores handed in
    overall_metrics,         \* the overall_score of the OverallMetrics returned
    \* MetricsCalculator.generate_recommendations
    metrics_arg,             \* the metrics object handed in
    recommendations,         \* the list returned
    rpc                      \* where the call is: idle, ready, returned, raised

orch_vars == <<analysis_steps, context, results, completed_steps, pc, remaining, calls,
               api_instance>>

arch_vars == <<source_files, dependency_graph, module_dependencies, class_hierarchy,
               package_structure, design_patterns_found, architecture_violations,
               total_files, visited, rec_stack, cycles, dfs_stack, metrics, report, apc>>

calc_vars == <<dimensions, overall_metrics, metrics_arg, recommendations, rpc>>

vars == <<orch_vars, arch_vars, calc_vars>>

----------------------------------------------------------------------------
(* Bounds *)

\* the largest number of register_step calls before execute_analysis
MaxSteps == 4

----------------------------------------------------------------------------
(* Values.  Every Python value the orchestrator inspects is one record:     *)
(*   none : None                                                            *)
(*   list : the entries src[lo .. hi-1] of the list named src, in order     *)
(*   obj  : a value that is not a list (a dict, a str, a tuple); hi = 1     *)
(*          when it is truthy and 0 when it is falsy                        *)
(*   wrap : the one-element list [obj] built around the obj named src       *)

None == [kind |-> "none", src |-> "", lo |-> 0, hi |-> 0]

List(s, n) == [kind |-> "list", src |-> s, lo |-> 0, hi |-> n]

Obj(s, truthy) == [kind |-> "obj", src |-> s, lo |-> 0, hi |-> IF truthy THEN 1 ELSE 0]

Wrap(v) == [kind |-> "wrap", src |-> v.src, lo |-> 0, hi |-> 1]

\* isinstance(v, list)
IsList(v) == v.kind \in {"list", "wrap"}

\* len(v) of a list
ListLen(v) == v.hi - v.lo

\* bool(v)
Truthy(v) == v.hi > v.lo

\* v[:n] of a list
SlicePrefix(v, n) == IF ListLen(v) > n THEN [v EXCEPT !.hi = v.lo + n] ELSE v

\* an empty dict
EmptyMap == [k \in {} |-> None]

\* d.get(k, default)
Get(d, k, default) == IF k \in DOMAIN d THEN d[k] ELSE default

\* d[k] = v
Put(d, k, v) == [x \in DOMAIN d \cup {k} |-> IF x = k THEN v ELSE d[x]]

----------------------------------------------------------------------------
(* register_step *)

register_step(name, method, dependencies) ==
    /\ pc = "idle"
    /\ Len(analysis_steps) < MaxSteps
    /\ analysis_steps' = Append(analysis_steps,
           [name |-> name, method |-> method, dependencies |-> dependencies])
    /\ UNCHANGED <<context, results, completed_steps, pc, remaining, calls>>
    /\ UNCHANGED <<api_instance, arch_vars, calc_vars>>

----------------------------------------------------------------------------
(* _execute_step_method: the binding of a step's inputs *)

\* the cap on the number of files handed to a step
max_files == 1000

\* the literal []
EmptyList == [kind |-> "list", src |-> "", lo |-> 0, hi |-> 0]

\* inspect.signature(method).parameters of the methods the steps are registered with
Signature(method) ==
    CASE method = "get_repository_info" -> << >>
      [] method = "get_data" -> <<"args", "kwargs">>
      [] method = "mock_analyze" -> <<"args", "kwargs">>
      [] method = "analyze" -> <<"source_files">>
      [] method = "analyze_docs" -> <<"repo_path", "source_files">>
      [] method = "analyze_sustainability" -> <<"commit_history", "repo_info", "source_files">>

\* lines 111-113: the source_files value, made a list
source_files_as_list(ctx, res) ==
    LET v == Get(res, "source_files", Get(ctx, "source_files", None))
    IN  IF v # None /\ ~IsList(v)
        THEN (IF Truthy(v) THEN Wrap(v) ELSE EmptyList)
        ELSE v

\* lines 115-123: the cap
cap_source_files(v) ==
    IF Truthy(v) /\ IsList(v) THEN SlicePrefix(v, max_files) ELSE v

source_files_result(ctx, res) == cap_source_files(source_files_as_list(ctx, res))

\* lines 129-134
param_mapping(ctx, res) ==
    [p \in {"repo_path", "source_files", "commit_history", "repo_info"} |->
        CASE p = "repo_path" -> Get(ctx, "repo_path", None)
          [] p = "source_files" -> source_files_result(ctx, res)
          [] p = "commit_history" -> Get(res, "commit_history", Get(ctx, "commit_history", None))
          [] p = "repo_info" -> Get(res, "git_parsing", Get(ctx, "repo_info", None))]

\* lines 136-142: the value bound to one parameter; only asked of a bound parameter
bound_value(param_name, ctx, res) ==
    LET pm == param_mapping(ctx, res)
    IN  IF param_name \in DOMAIN pm /\ pm[param_name] # None THEN pm[param_name]
        ELSE IF param_name \in DOMAIN ctx THEN ctx[param_name]
        ELSE res[param_name]

\* lines 136-142: whether a parameter gets a keyword argument
is_bound(param_name, ctx, res) ==
    LET pm == param_mapping(ctx, res)
    IN  \/ param_name \in DOMAIN pm /\ pm[param_name] # None
        \/ param_name \in DOMAIN ctx
        \/ param_name \in DOMAIN res

\* lines 107-142: kwargs, the keyword arguments of the call
execute_step_kwargs(method, ctx, res) ==
    LET sig == Signature(method)
        params == {sig[i] : i \in 1..Len(sig)}
    IN  [p \in {q \in params : is_bound(q, ctx, res)} |-> bound_value(p, ctx, res)]

----------------------------------------------------------------------------
(* execute_analysis *)

\* line 49
total_steps == Len(analysis_steps)

\* line 57 with any() in place of all()
deps_completed_any(step, completed) ==
    step.dependencies = {} \/ \E dep \in step.dependencies : dep \in completed

\* line 57: all(dep in completed_steps for dep in step['dependencies'])
deps_completed(step, completed) == \A dep \in step.dependencies : dep \in completed

\* lines 53-57 without the skip of a completed step
runnable_again(i) == deps_completed(analysis_steps[i], completed_steps)

\* lines 53-57: the step at index i is the one the scan would execute
runnable(i) ==
    /\ analysis_steps[i].name \notin completed_steps
    /\ deps_completed(analysis_steps[i], completed_steps)

\* the for loop going through the steps from the back
last_runnable ==
    IF \E i \in 1..Len(analysis_steps) : runnable(i)
    THEN CHOOSE i \in 1..Len(analysis_steps) :
            runnable(i) /\ \A j \in (i + 1)..Len(analysis_steps) : ~runnable(j)
    ELSE 0

\* lines 52-57, 94: the for loop stops at the first runnable step; 0 when it finds none
first_runnable ==
    IF \E i \in 1..Len(analysis_steps) : runnable(i)
    THEN CHOOSE i \in 1..Len(analysis_steps) :
            runnable(i) /\ \A j \in 1..(i - 1) : ~runnable(j)
    ELSE 0

\* line 97 reporting only the first step that is not completed
remaining_names_first ==
    LET open == SelectSeq(analysis_steps, LAMBDA s : s.name \notin completed_steps)
    IN  IF open = << >> THEN << >> ELSE <<open[1].name>>

\* line 97 without its filter on completed_steps
remaining_names_all == [i \in 1..Len(analysis_steps) |-> analysis_steps[i].name]

\* line 97: the names of the steps not completed, in registration order
remaining_names ==
    LET open == SelectSeq(analysis_steps, LAMBDA s : s.name \notin completed_steps)
    IN  [i \in 1..Len(open) |-> open[i].name]

\* lines 45-49: entry, with the caller's context
execute_analysis(ctx) ==
    /\ pc = "idle"
    /\ context' = ctx
    /\ results' = EmptyMap
    /\ completed_steps' = {}
    /\ pc' = "running"
    /\ UNCHANGED <<analysis_steps, remaining, calls>>
    /\ UNCHANGED <<api_instance, arch_vars, calc_vars>>

\* the progress object: current_step and current_progress, a percentage
Api(current_step, current_progress) ==
    [attached |-> TRUE, current_step |-> current_step,
     current_progress |-> current_progress]

\* self.api_instance = None
NoApi == [attached |-> FALSE, current_step |-> "", current_progress |-> [num |-> 0, den |-> 1]]

\* a progress object just attached: no step shown, progress 0
FreshApi == Api("", [num |-> 0, den |-> 1])

\* lines 61-71: the text shown for a step
step_names ==
    [git_parsing    |-> "Parsing Git repository...",
     source_files   |-> "Scanning source files...",
     commit_history |-> "Analyzing commit history...",
     code_quality   |-> "Evaluating code quality...",
     code_smells    |-> "Detecting code smells...",
     architecture   |-> "Analyzing architecture...",
     tests          |-> "Checking test coverage...",
     documentation  |-> "Evaluating documentation...",
     sustainability |-> "Computing sustainability..."]

\* step_names.get(step['name'], step['name'])
step_display(name) == IF name \in DOMAIN step_names THEN step_names[name] ELSE name

\* the percentage taken once the step is completed
progress_after_step ==
    [num |-> 100 * (Cardinality(completed_steps) + 1), den |-> total_steps]

\* line 59: progress = (len(completed_steps) / total_steps) * 100
progress ==
    [num |-> 100 * Cardinality(completed_steps), den |-> total_steps]

\* lines 60-74: the progress object as the step at index i finds it
update_progress(i) ==
    IF api_instance.attached
    THEN Api(step_display(analysis_steps[i].name), progress)
    ELSE api_instance

\* the record of one invocation: the step, what it was called with (line 146/148),
\* the completed set and results map at that moment, and whether the method raised
call_record(i, raised) ==
    [index |-> i,
     raised |-> raised,
     name |-> analysis_steps[i].name,
     kwargs |-> execute_step_kwargs(analysis_steps[i].method, context, results),
     completed |-> completed_steps,
     results |-> results,
     api |-> update_progress(i)]

\* the cap of lines 115-123 applied to the recorded result itself, not to a copy
step_returns_capping(result) ==
    /\ pc = "running"
    /\ Cardinality(completed_steps) < total_steps
    /\ first_runnable # 0
    /\ LET i == first_runnable
           kept == [n \in DOMAIN results |->
                      IF n = "source_files" THEN cap_source_files(results[n])
                      ELSE results[n]]
       IN  /\ calls' = Append(calls, call_record(i, FALSE))
           /\ results' = Put(kept, analysis_steps[i].name, result)
           /\ completed_steps' = completed_steps \cup {analysis_steps[i].name}
           /\ api_instance' = update_progress(i)
    /\ UNCHANGED <<analysis_steps, context, pc, remaining>>
    /\ UNCHANGED <<arch_vars, calc_vars>>

\* lines 51-94, a pass of the while loop that executes a step whose method returns
step_returns(result) ==
    /\ pc = "running"
    /\ Cardinality(completed_steps) < total_steps
    /\ first_runnable # 0
    /\ LET i == first_runnable
       IN  /\ calls' = Append(calls, call_record(i, FALSE))
           /\ results' = Put(results, analysis_steps[i].name, result)
           /\ completed_steps' = completed_steps \cup {analysis_steps[i].name}
           /\ api_instance' = update_progress(i)
    /\ UNCHANGED <<analysis_steps, context, pc, remaining>>
    /\ UNCHANGED <<arch_vars, calc_vars>>

\* line 84 inside a try/except that records None and goes on
step_raises_caught ==
    /\ pc = "running"
    /\ Cardinality(completed_steps) < total_steps
    /\ first_runnable # 0
    /\ LET i == first_runnable
       IN  /\ calls' = Append(calls, call_record(i, TRUE))
           /\ results' = Put(results, analysis_steps[i].name, None)
           /\ completed_steps' = completed_steps \cup {analysis_steps[i].name}
           /\ api_instance' = update_progress(i)
    /\ UNCHANGED <<analysis_steps, context, pc, remaining>>
    /\ UNCHANGED <<arch_vars, calc_vars>>

\* lines 51-84, a pass of the while loop that executes a step whose method raises:
\* nothing catches the exception
step_raises ==
    /\ pc = "running"
    /\ Cardinality(completed_steps) < total_steps
    /\ first_runnable # 0
    /\ calls' = Append(calls, call_record(first_runnable, TRUE))
    /\ api_instance' = update_progress(first_runnable)
    /\ pc' = "stage_error"
    /\ UNCHANGED <<analysis_steps, context, results, completed_steps, remaining>>
    /\ UNCHANGED <<arch_vars, calc_vars>>

\* the dependencies checked before anything is executed
raise_unresolvable_preflight ==
    /\ pc = "running"
    /\ \E i \in 1..Len(analysis_steps) :
          \E d \in analysis_steps[i].dependencies :
              \A j \in 1..Len(analysis_steps) : analysis_steps[j].name # d
    /\ remaining' = remaining_names
    /\ pc' = "unresolvable"
    /\ UNCHANGED <<analysis_steps, context, results, completed_steps, calls>>
    /\ UNCHANGED <<api_instance, arch_vars, calc_vars>>

\* lines 95-98: a pass of the while loop that executes nothing
raise_unresolvable ==
    /\ pc = "running"
    /\ Cardinality(completed_steps) < total_steps
    /\ first_runnable = 0
    /\ remaining' = remaining_names
    /\ pc' = "unresolvable"
    /\ UNCHANGED <<analysis_steps, context, results, completed_steps, calls>>
    /\ UNCHANGED <<api_instance, arch_vars, calc_vars>>

\* line 51 with the bound off by one: the loop ends with one step still to run
return_results_early ==
    /\ pc = "running"
    /\ ~(Cardinality(completed_steps) < total_steps - 1)
    /\ pc' = "returned"
    /\ UNCHANGED <<analysis_steps, context, results, completed_steps, remaining, calls>>
    /\ UNCHANGED <<api_instance, arch_vars, calc_vars>>

\* lines 51, 100: the while condition fails and the results are returned
return_results ==
    /\ pc = "running"
    /\ ~(Cardinality(completed_steps) < total_steps)
    /\ pc' = "returned"
    /\ UNCHANGED <<analysis_steps, context, results, completed_steps, remaining, calls>>
    /\ UNCHANGED <<api_instance, arch_vars, calc_vars>>

----------------------------------------------------------------------------
(* The callers.  Spec: the steps of the workflow tests, uniquely named,     *)
(* registered in any order with Mock methods and an empty context.          *)

StepNames == {"git_parsing", "source_files", "commit_history", "code_quality"}

\* the dependency lists of the tests' graphs: none, any one step, two steps, and a
\* name that is never registered
DependencyLists ==
    {{}, {"git_parsing"}, {"source_files"}, {"commit_history"}, {"code_quality"},
     {"source_files", "commit_history"}, {"non_existent_step"}}

\* what a Mock method returns
MockResult == Obj("mock_result", TRUE)

registered_names == {analysis_steps[i].name : i \in 1..Len(analysis_steps)}

\* no analyzer and no calculator has been called
analyzer_idle ==
    /\ source_files = << >>
    /\ dependency_graph = << >>
    /\ module_dependencies = << >>
    /\ class_hierarchy = << >>
    /\ package_structure = << >>
    /\ design_patterns_found = {}
    /\ architecture_violations = << >>
    /\ total_files = 0
    /\ visited = {}
    /\ rec_stack = {}
    /\ cycles = << >>
    /\ dfs_stack = << >>
    /\ metrics = << >>
    /\ report = << >>
    /\ apc = "idle"

\* an object with the attributes attrs, and None
Record(attrs) == [present |-> TRUE, attrs |-> attrs]

NoRecord == [present |-> FALSE, attrs |-> << >>]

calculator_idle ==
    /\ dimensions = << >>
    /\ overall_metrics = << >>
    /\ metrics_arg = NoRecord
    /\ recommendations = << >>
    /\ rpc = "idle"

\* AnalysisOrchestrator.__init__
orchestrator_init ==
    /\ analysis_steps = << >>
    /\ context = EmptyMap
    /\ results = EmptyMap
    /\ completed_steps = {}
    /\ pc = "idle"
    /\ remaining = << >>
    /\ calls = << >>
    /\ api_instance = NoApi

Init ==
    /\ orchestrator_init
    /\ analyzer_idle
    /\ calculator_idle

Register ==
    \E name \in StepNames \ registered_names, deps \in DependencyLists :
        register_step(name, "get_data", deps)

Execute == execute_analysis(EmptyMap)

StepReturns == step_returns(MockResult)

Next ==
    \/ Register
    \/ Execute
    \/ StepReturns
    \/ step_raises
    \/ raise_unresolvable
    \/ return_results

Spec == Init /\ [][Next]_vars

\* the loop of execute_analysis runs on once entered: single-threaded, synchronous
Run == StepReturns \/ step_raises \/ raise_unresolvable \/ return_results

FairSpec == Spec /\ WF_vars(Run)

\* ProgressSpec: the same callers with a progress object attached to the
\* orchestrator before the first registration, nothing shown on it yet
InitProgress ==
    /\ analysis_steps = << >>
    /\ context = EmptyMap
    /\ results = EmptyMap
    /\ completed_steps = {}
    /\ pc = "idle"
    /\ remaining = << >>
    /\ calls = << >>
    /\ api_instance = FreshApi
    /\ analyzer_idle
    /\ calculator_idle

ProgressSpec == InitProgress /\ [][Next]_vars

----------------------------------------------------------------------------
(* BindSpec: the callers of the parameter-binding tests.  Few steps, which   *)
(* may share a name, with methods of every signature, contexts that carry    *)
(* source_files, repo_path and repo_info or not, and results of every kind.  *)

\* the largest number of register_step calls under BindSpec
MaxBindSteps == 2

\* the length of the file lists of test_execute_step_method_with_parameters
ShortLen == 2

\* the length of the file list of test_source_files_limiting
LongLen == 1500

BindSteps ==
    {[name |-> "source_files", method |-> "get_data", dependencies |-> {}],
     [name |-> "code_quality", method |-> "analyze", dependencies |-> {"source_files"}],
     [name |-> "documentation", method |-> "analyze_docs", dependencies |-> {}],
     [name |-> "repo_info", method |-> "get_repository_info", dependencies |-> {}],
     [name |-> "sustainability", method |-> "analyze_sustainability",
      dependencies |-> {"repo_info"}],
     [name |-> "get_files", method |-> "get_data", dependencies |-> {}],
     [name |-> "analyze_files", method |-> "mock_analyze", dependencies |-> {"get_files"}]}

ContextKeys == {"source_files", "repo_path", "repo_info"}

ContextValues(key) ==
    CASE key = "source_files" ->
            {None, List("context_files", ShortLen), List("context_files", LongLen),
             Obj("context_files_tuple", TRUE)}
      [] key = "repo_path" -> {None, Obj("context_repo_path", TRUE)}
      [] key = "repo_info" -> {Obj("context_repo_info", TRUE)}

Contexts ==
    {ctx \in UNION {[keys -> UNION {ContextValues(k) : k \in keys}] :
                       keys \in SUBSET ContextKeys} :
        \A k \in DOMAIN ctx : ctx[k] \in ContextValues(k)}

\* what a step's method may return
ReturnValues ==
    {None, EmptyList, List("result_files", ShortLen), List("result_files", LongLen),
     Obj("result", TRUE)}

RegisterBind ==
    \E s \in BindSteps :
        /\ Len(analysis_steps) < MaxBindSteps
        /\ register_step(s.name, s.method, s.dependencies)

ExecuteBind == \E ctx \in Contexts : execute_analysis(ctx)

StepReturnsBind == \E result \in ReturnValues : step_returns(result)

NextBind ==
    \/ RegisterBind
    \/ ExecuteBind
    \/ StepReturnsBind
    \/ step_raises
    \/ raise_unresolvable
    \/ return_results

BindSpec == Init /\ [][NextBind]_vars

----------------------------------------------------------------------------
(* The declared dependency graph, read off the registered steps *)

\* the names the steps called n declare as dependencies
declared(n) ==
    UNION {analysis_steps[i].dependencies :
              i \in {j \in 1..Len(analysis_steps) : analysis_steps[j].name = n}}

RECURSIVE reach(_, _)
reach(frontier, seen) ==
    LET next == UNION {declared(n) : n \in frontier} \ seen
    IN  IF next = {} THEN seen ELSE reach(next, seen \cup next)

\* every name n depends on, directly or not (n itself when n is on a cycle)
depends_on(n) == reach({n}, {})

on_cycle(n) == n \in depends_on(n)

unique_names == Cardinality(registered_names) = Len(analysis_steps)

\* n can never run: it is, or depends on, an unregistered name or a cycle
blocked(n) ==
    \E t \in depends_on(n) \cup {n} : t \notin registered_names \/ on_cycle(t)

valid_dag == unique_names /\ \A n \in registered_names : ~blocked(n)

has_cycle == \E n \in registered_names : on_cycle(n)

has_missing == \E n \in registered_names : \E d \in declared(n) : d \notin registered_names

\* how often the step at index i was invoked
times_called(i) == Cardinality({k \in 1..Len(calls) : calls[k].index = i})

names_in(seq) == {seq[i] : i \in 1..Len(seq)}

----------------------------------------------------------------------------
(* Claims *)

\* C1: with uniquely named steps whose dependencies are all registered and acyclic,
\* execute_analysis (no step raising) terminates and returns a map whose keys are
\* exactly the registered names, every step having been invoked exactly once; it
\* never reports an unresolvable dependency.
C1_ValidDagReturnsAll ==
    /\ [](valid_dag /\ pc = "returned" =>
            /\ DOMAIN results = registered_names
            /\ Len(calls) = Len(analysis_steps)
            /\ \A i \in 1..Len(analysis_steps) : times_called(i) = 1)
    /\ [](valid_dag /\ pc # "idle" =>
            /\ pc # "unresolvable"
            /\ \A i \in 1..Len(analysis_steps) : times_called(i) <= 1)
    /\ ((valid_dag /\ pc = "running") ~> (pc \in {"returned", "stage_error"}))

C1_Witness ==
    /\ pc = "returned"
    /\ valid_dag
    /\ Len(analysis_steps) = 4
    /\ \E i \in 1..4 : Cardinality(analysis_steps[i].dependencies) = 2

\* C2: whenever a step is invoked, every declared dependency of it is in the
\* completed set and has an entry in the results map; in the diamond git_parsing(),
\* source_files(git_parsing), commit_history(git_parsing),
\* code_quality(source_files, commit_history) the last runs after both middle ones.
C2_DependenciesCompletedAtCall ==
    \A k \in 1..Len(calls) :
        LET step == analysis_steps[calls[k].index]
        IN  /\ step.dependencies \subseteq calls[k].completed
            /\ step.dependencies \subseteq DOMAIN calls[k].results
            /\ (step.name = "code_quality"
                  /\ step.dependencies = {"source_files", "commit_history"}
                => \E a, b \in 1..(k - 1) :
                      calls[a].name = "source_files" /\ calls[b].name = "commit_history")

\* the diamond, with code_quality registered before source_files
diamond ==
    /\ Len(analysis_steps) = 4
    /\ \E a, b, c, d \in 1..4 :
        /\ analysis_steps[a].name = "git_parsing" /\ analysis_steps[a].dependencies = {}
        /\ analysis_steps[b].name = "source_files"
        /\ analysis_steps[b].dependencies = {"git_parsing"}
        /\ analysis_steps[c].name = "commit_history"
        /\ analysis_steps[c].dependencies = {"git_parsing"}
        /\ analysis_steps[d].name = "code_quality"
        /\ analysis_steps[d].dependencies = {"source_files", "commit_history"}
        /\ d < b

C2_Witness ==
    /\ diamond
    /\ Len(calls) = 4
    /\ calls[4].name = "code_quality"

\* C3: with a cycle among the declared dependencies (a self-dependency included),
\* execute_analysis never returns a map; unless a step raises first it ends with the
\* RuntimeError of line 98, whose list names every step on a cycle.
C3_CycleRaisesNamingCycle ==
    /\ [](has_cycle /\ pc # "idle" => pc # "returned")
    /\ [](has_cycle /\ pc = "unresolvable" =>
            \A n \in registered_names : on_cycle(n) => n \in names_in(remaining))
    /\ ((has_cycle /\ pc = "running") ~> (pc \in {"unresolvable", "stage_error"}))

C3_Witness ==
    /\ pc = "unresolvable"
    /\ calls # << >>
    /\ \E n, m \in registered_names : n # m /\ on_cycle(n) /\ m \in declared(n) /\ on_cycle(m)

\* the names of the blocked steps, in registration order
blocked_in_order ==
    LET open == SelectSeq(analysis_steps, LAMBDA s : blocked(s.name))
    IN  [i \in 1..Len(open) |-> open[i].name]

\* C4: with a dependency on a name never registered, execute_analysis never returns
\* a map and never invokes a blocked step; the RuntimeError lists, in registration
\* order, exactly the steps not completed, which are exactly the steps that are or
\* depend on the unregistered name or on a cycle.
C4_MissingDependencyRaises ==
    /\ has_missing /\ pc # "idle" => pc # "returned"
    /\ \A k \in 1..Len(calls) : ~blocked(calls[k].name)
    /\ pc = "unresolvable" =>
        /\ remaining = blocked_in_order
        /\ names_in(remaining) = registered_names \ completed_steps

C4_Witness ==
    /\ pc = "unresolvable"
    /\ has_missing
    /\ ~has_cycle
    /\ calls # << >>
    /\ \E n \in names_in(remaining) : \A d \in declared(n) : d \in registered_names

\* C5: when a step's method raises, execute_analysis ends with that exception: the
\* failing step is the last one invoked, it is in neither the completed set nor the
\* results map, and from then on nothing is invoked, recorded or returned.
C5_StageExceptionPropagates ==
    /\ [](\A k \in 1..Len(calls) : calls[k].raised =>
            /\ pc = "stage_error"
            /\ k = Len(calls)
            /\ calls[k].name \notin completed_steps
            /\ calls[k].name \notin DOMAIN results
            /\ completed_steps = {calls[j].name : j \in 1..(k - 1)})
    /\ [](pc = "stage_error" => calls # << >> /\ calls[Len(calls)].raised)
    /\ [][pc = "stage_error" =>
            /\ pc' = "stage_error"
            /\ calls' = calls
            /\ results' = results
            /\ completed_steps' = completed_steps]_vars

C5_Witness ==
    /\ pc = "stage_error"
    /\ Len(calls) = 2
    /\ calls[2].raised
    /\ Len(analysis_steps) = 4

----------------------------------------------------------------------------
(* Claims about the binding of inputs, under BindSpec *)

\* the parameter names of the method invoked by the k-th call
params_of(k) ==
    LET sig == Signature(analysis_steps[calls[k].index].method)
    IN  {sig[i] : i \in 1..Len(sig)}

\* passed is the value v, or the list made of v (wrapped, capped)
is_from(passed, v) == passed = v \/ (IsList(passed) /\ passed.src = v.src /\ v.src # "")

\* C6: for every parameter a step's method declares, when the results map has a
\* (non-None) entry under that name and the context has a key of that name, the
\* argument passed is the one from the results map.
C6_ResultsBeforeContext ==
    \A k \in 1..Len(calls) : \A p \in params_of(k) :
        (/\ p \in DOMAIN calls[k].results
         /\ calls[k].results[p] # None
         /\ p \in DOMAIN context)
        => /\ p \in DOMAIN calls[k].kwargs
           /\ is_from(calls[k].kwargs[p], calls[k].results[p])

\* C7: no step's method is ever passed an argument whose value is None.
C7_NoNoneArgument ==
    \A k \in 1..Len(calls) : \A p \in DOMAIN calls[k].kwargs : calls[k].kwargs[p] # None

\* C8: a list passed as source_files has at most max_files entries, the first ones of
\* the list it was taken from, whether that list is the context's or the result of
\* the source_files step.
C8_SourceFilesCapped ==
    \A k \in 1..Len(calls) :
        ("source_files" \in DOMAIN calls[k].kwargs /\ IsList(calls[k].kwargs["source_files"]))
        => /\ ListLen(calls[k].kwargs["source_files"]) <= max_files
           /\ calls[k].kwargs["source_files"].lo = 0

\* C9: a step is invoked with the (non-empty) result of every step it declares as a
\* dependency, whatever its method's parameters are called: analyze_files, which
\* depends on get_files, receives the list get_files returned.
C9_DependencyResultPassed ==
    \A k \in 1..Len(calls) : \A dep \in analysis_steps[calls[k].index].dependencies :
        (/\ dep \in DOMAIN calls[k].results
         /\ Truthy(calls[k].results[dep])
         /\ dep \notin DOMAIN context)
        => \E p \in DOMAIN calls[k].kwargs : is_from(calls[k].kwargs[p], calls[k].results[dep])

\* the index of the last registration of the name of step i
last_registration(i) ==
    CHOOSE j \in 1..Len(analysis_steps) :
        /\ analysis_steps[j].name = analysis_steps[i].name
        /\ \A h \in (j + 1)..Len(analysis_steps) : analysis_steps[h].name # analysis_steps[i].name

\* C10: when a name is registered twice (every dependency being resolvable),
\* execute_analysis ends without the RuntimeError of line 98, and on return the
\* result under each name was produced by the last registration of that name.
C10_LastRegistrationWins ==
    (/\ ~unique_names
     /\ \A n \in registered_names : ~blocked(n)
     /\ pc # "idle")
    => /\ pc # "unresolvable"
       /\ pc = "returned" =>
            \A i \in 1..Len(analysis_steps) : times_called(last_registration(i)) = 1

----------------------------------------------------------------------------
(* ArchitectureAnalyzer of core/analyzers/architecture_analyzer.py.          *)
(*                                                                           *)
(* Numbers.  A score is the exact fraction num/den (den > 0); round(x, 1)    *)
(* gives a whole number of tenths.                                           *)

Frac(n, d) == [num |-> n, den |-> d]

FracEq(a, b) == a.num * b.den = b.num * a.den

FracLe(a, b) == a.num * b.den <= b.num * a.den

FracAdd(a, b) == Frac(a.num * b.den + b.num * a.den, a.den * b.den)

\* max(0, x)
max_zero(x) == IF x.num < 0 THEN Frac(0, 1) ELSE x

min_int(a, b) == IF a <= b THEN a ELSE b

\* round(x, 1) of a non-negative x, in tenths; a tie goes to the even tenth
round_1(x) ==
    LET t == (10 * x.num) \div x.den
        r == 10 * x.num - t * x.den
    IN  IF 2 * r > x.den THEN t + 1
        ELSE IF 2 * r < x.den THEN t
        ELSE IF t % 2 = 0 THEN t ELSE t + 1

\* the sum of f over the finite set S
RECURSIVE sum_over(_, _)
sum_over(f, S) ==
    IF S = {} THEN 0
    ELSE LET x == CHOOSE y \in S : TRUE IN f[x] + sum_over(f, S \ {x})

----------------------------------------------------------------------------
(* _extract_dependencies and _is_builtin_module.  A raw reference captured   *)
(* by an import pattern is kept as the list dep.split('.') of its segments:  *)
(* "os.path" is <<"os", "path">>, the relative ".models" is <<"", "models">>.*)

\* the reference as the text the pattern captured
RECURSIVE dotted(_)
dotted(ref) ==
    IF Len(ref) = 1 THEN ref[1] ELSE ref[1] \o "." \o dotted(Tail(ref))

builtin_modules ==
    {<<"os">>, <<"sys">>, <<"re">>, <<"json">>, <<"datetime">>, <<"collections">>,
     <<"itertools">>, <<"functools">>, <<"math">>, <<"random">>, <<"string">>,
     <<"path">>, <<"util">>, <<"crypto">>, <<"http">>, <<"https">>, <<"url">>, <<"fs">>,
     <<"java", "util">>, <<"java", "io">>, <<"java", "lang">>, <<"java", "net">>}

\* module_name.startswith(builtin + '.')
starts_with_dot(ref, builtin) ==
    /\ Len(ref) > Len(builtin)
    /\ SubSeq(ref, 1, Len(builtin)) = builtin

_is_builtin_module(ref) ==
    \E builtin \in builtin_modules :
        \/ ref = builtin
        \/ (Len(dotted(builtin)) > 3 /\ starts_with_dot(ref, builtin))

\* '.' in dep and (dep.startswith('com.') or dep.startswith('org.'))
is_java_package(ref) == Len(ref) > 1 /\ ref[1] \in {"com", "org"}

\* what the clean-up loop adds for one kept reference
cleaned_name(ref) == IF is_java_package(ref) THEN dotted(ref) ELSE ref[1]

\* dep is truthy: the captured text is not empty
is_captured(ref) == dotted(ref) # ""

_extract_dependencies(references) ==
    {cleaned_name(ref) : ref \in {r \in references : is_captured(r) /\ ~_is_builtin_module(r)}}

----------------------------------------------------------------------------
(* analyze: the loop over the source files.  A file is the record            *)
(*   stem, parent : file_path.stem and file_path.parent.name                 *)
(*   readable     : open and read succeed                                    *)
(*   blank        : content.strip() is empty                                 *)
(*   references   : what the import patterns capture in the content          *)
(*   inheritance  : class name -> parent class names found in the content    *)
(*   patterns     : design patterns found in the content                     *)
(*   violations   : the types of the violations found, in detection order    *)
(* A violation is a str (kind "str") or a dict with a 'type' key (kind       *)
(* "dict"); type is the text or the value under 'type'.                      *)

StrViolation(t) == [kind |-> "str", type |-> t]

DictViolation(t) == [kind |-> "dict", type |-> t]

\* {} of _analyze_file_architecture
EmptyAnalysis == << >>

\* the variant without the open/read guard of lines 153-157
analyze_file_architecture_unguarded(file) ==
    IF file.readable /\ file.blank
    THEN EmptyAnalysis
    ELSE [dependencies |-> _extract_dependencies(file.references),
          inheritance  |-> file.inheritance,
          patterns     |-> file.patterns,
          violations   |-> [i \in 1..Len(file.violations) |-> StrViolation(file.violations[i])]]

_analyze_file_architecture(file) ==
    IF ~file.readable \/ file.blank
    THEN EmptyAnalysis
    ELSE [dependencies |-> _extract_dependencies(file.references),
          inheritance  |-> file.inheritance,
          patterns     |-> file.patterns,
          violations   |-> [i \in 1..Len(file.violations) |-> StrViolation(file.violations[i])]]

_get_module_name(file) == file.stem

_get_package_name(file) == file.parent

\* d[k] of a defaultdict(set) or defaultdict(list)
GetSet(d, k) == IF k \in DOMAIN d THEN d[k] ELSE {}

GetList(d, k) == IF k \in DOMAIN d THEN d[k] ELSE << >>

\* class_hierarchy[class_name].update(parent_classes) for every class of the file
update_hierarchy(hierarchy, inheritance) ==
    [c \in DOMAIN hierarchy \cup DOMAIN inheritance |->
        GetSet(hierarchy, c) \cup GetSet(inheritance, c)]

\* the data structures of analyze before the first file
empty_structures ==
    [dependency_graph        |-> << >>,
     module_dependencies     |-> << >>,
     class_hierarchy         |-> << >>,
     package_structure       |-> << >>,
     design_patterns_found   |-> {},
     architecture_violations |-> << >>]

\* the body of the loop for one file
analyze_file(st, file) ==
    LET file_analysis == _analyze_file_architecture(file)
        module_name   == _get_module_name(file)
        package_name  == _get_package_name(file)
    IN  IF DOMAIN file_analysis = {}
        THEN st
        ELSE [dependency_graph |->
                 Put(st.dependency_graph, module_name,
                     GetSet(st.dependency_graph, module_name) \cup file_analysis.dependencies),
              module_dependencies |->
                 Put(st.module_dependencies, module_name, file_analysis.dependencies),
              class_hierarchy |->
                 update_hierarchy(st.class_hierarchy, file_analysis.inheritance),
              package_structure |->
                 Put(st.package_structure, package_name,
                     Append(GetList(st.package_structure, package_name), module_name)),
              design_patterns_found |->
                 st.design_patterns_found \cup file_analysis.patterns,
              architecture_violations |->
                 st.architecture_violations \o file_analysis.violations]

\* the loop over files, first file first
RECURSIVE analyze_loop(_, _)
analyze_loop(st, files) ==
    IF files = << >> THEN st
    ELSE analyze_loop(analyze_file(st, Head(files)), Tail(files))

\* analyze up to the call of _calculate_architecture_metrics, whose first
\* statement that keeps state is the cycle detection
analyze ==
    /\ apc = "start"
    /\ LET st == analyze_loop(empty_structures, source_files)
       IN  /\ dependency_graph' = st.dependency_graph
           /\ module_dependencies' = st.module_dependencies
           /\ class_hierarchy' = st.class_hierarchy
           /\ package_structure' = st.package_structure
           /\ design_patterns_found' = st.design_patterns_found
           /\ architecture_violations' = st.architecture_violations
    /\ total_files' = Len(source_files)
    /\ apc' = "detect"
    /\ UNCHANGED <<source_files, visited, rec_stack, cycles, dfs_stack, metrics, report>>
    /\ UNCHANGED <<orch_vars, calc_vars>>

----------------------------------------------------------------------------
(* _detect_circular_dependencies.  dfs_stack holds the active calls of dfs,  *)
(* outermost first; a frame is the node of the call and the neighbours its   *)
(* for loop has still to iterate.  The order of a dict's keys and of a set's *)
(* elements is whatever the caller's data gives: any of them may come next.  *)

\* path + [node] of the innermost active call
dfs_path(stack) == [i \in 1..Len(stack) |-> stack[i].node]

\* the variant that always takes the whole path
cycle_start_whole_path(node, path) == 1

\* path.index(node) if node in path else 0, counted from 1
cycle_start(node, path) ==
    IF \E i \in 1..Len(path) : path[i] = node
    THEN CHOOSE i \in 1..Len(path) :
            path[i] = node /\ \A j \in 1..(i - 1) : path[j] # node
    ELSE 1

\* path[cycle_start:] + [node]
found_cycle(node, path) ==
    SubSeq(path, cycle_start(node, path), Len(path)) \o <<node>>

\* the call dfs(node, path), made while the active calls are stack
dfs(node, stack) ==
    IF node \in rec_stack
    THEN /\ cycles' = Append(cycles, found_cycle(node, dfs_path(stack)))
         /\ dfs_stack' = stack
         /\ UNCHANGED <<visited, rec_stack>>
    ELSE IF node \in visited
    THEN /\ dfs_stack' = stack
         /\ UNCHANGED <<visited, rec_stack, cycles>>
    ELSE /\ visited' = visited \cup {node}
         /\ rec_stack' = rec_stack \cup {node}
         /\ dfs_stack' = Append(stack, [node |-> node, todo |-> GetSet(dependency_graph, node)])
         /\ UNCHANGED cycles

detect_frame ==
    /\ UNCHANGED <<source_files, dependency_graph, module_dependencies, class_hierarchy,
                   package_structure, design_patterns_found, architecture_violations,
                   total_files, metrics, report, apc>>
    /\ UNCHANGED <<orch_vars, calc_vars>>

\* for node in dependency_graph: if node not in visited: dfs(node, [])
dfs_root ==
    /\ apc = "detect"
    /\ dfs_stack = << >>
    /\ \E node \in DOMAIN dependency_graph \ visited : dfs(node, << >>)
    /\ detect_frame

\* for neighbor in dependency_graph.get(node, []): dfs(neighbor, path + [node])
dfs_neighbor ==
    /\ apc = "detect"
    /\ dfs_stack # << >>
    /\ LET top == dfs_stack[Len(dfs_stack)]
       IN  \E neighbor \in top.todo :
              dfs(neighbor, [dfs_stack EXCEPT ![Len(dfs_stack)].todo = top.todo \ {neighbor}])
    /\ detect_frame

\* the variant that leaves the node on rec_stack
dfs_return_on_stack ==
    /\ apc = "detect"
    /\ dfs_stack # << >>
    /\ dfs_stack[Len(dfs_stack)].todo = {}
    /\ dfs_stack' = SubSeq(dfs_stack, 1, Len(dfs_stack) - 1)
    /\ UNCHANGED <<visited, rec_stack, cycles>>
    /\ detect_frame

\* rec_stack.remove(node) and the return of dfs
dfs_return ==
    /\ apc = "detect"
    /\ dfs_stack # << >>
    /\ dfs_stack[Len(dfs_stack)].todo = {}
    /\ rec_stack' = rec_stack \ {dfs_stack[Len(dfs_stack)].node}
    /\ dfs_stack' = SubSeq(dfs_stack, 1, Len(dfs_stack) - 1)
    /\ UNCHANGED <<visited, cycles>>
    /\ detect_frame

\* the outer loop has passed every key: return cycles
detection_done ==
    /\ apc = "detect"
    /\ dfs_stack = << >>
    /\ DOMAIN dependency_graph \subseteq visited

----------------------------------------------------------------------------
(* _calculate_inheritance_depth and _calculate_depth_helper *)

max_of(S) == CHOOSE x \in S : \A y \in S : y <= x

\* the inner has_cycle(start_class, current_class, path); the for loop
\* returns at the first parent that answers True
RECURSIVE hierarchy_has_cycle(_, _, _)
hierarchy_has_cycle(hierarchy, current_class, path) ==
    IF current_class \in path THEN TRUE
    ELSE IF GetSet(hierarchy, current_class) = {} THEN FALSE
    ELSE \E parent \in GetSet(hierarchy, current_class) :
            hierarchy_has_cycle(hierarchy, parent, path \cup {current_class})

RECURSIVE _calculate_depth_helper(_, _)
_calculate_depth_helper(class_name, hierarchy) ==
    IF GetSet(hierarchy, class_name) = {} THEN 1
    ELSE max_of({_calculate_depth_helper(parent, hierarchy) :
                    parent \in GetSet(hierarchy, class_name)}) + 1

\* the variant that looks for a cycle through class_name only among its parents
calculate_inheritance_depth_direct(class_name, hierarchy) ==
    IF class_name \in GetSet(hierarchy, class_name)
       \/ \E parent \in GetSet(hierarchy, class_name) :
             class_name \in GetSet(hierarchy, parent)
    THEN 0
    ELSE IF hierarchy_has_cycle(hierarchy, class_name, {}) THEN 1
    ELSE _calculate_depth_helper(class_name, hierarchy)

_calculate_inheritance_depth(class_name, hierarchy) ==
    IF hierarchy_has_cycle(hierarchy, class_name, {}) THEN 0
    ELSE _calculate_depth_helper(class_name, hierarchy)

----------------------------------------------------------------------------
(* _calculate_architecture_metrics after the cycle detection *)

total_dependencies(graph) ==
    sum_over([m \in DOMAIN graph |-> Cardinality(graph[m])], DOMAIN graph)

\* the keys of fan_in: every identifier some module depends on
fan_in_keys(graph) == UNION {graph[m] : m \in DOMAIN graph}

\* sum(fan_out.values()) / len(fan_out) if fan_out else 0
avg_fan_out(graph) ==
    IF DOMAIN graph # {}
    THEN Frac(total_dependencies(graph), Cardinality(DOMAIN graph))
    ELSE Frac(0, 1)

\* sum(fan_in.values()) / len(fan_in) if fan_in else 0
avg_fan_in(graph) ==
    IF fan_in_keys(graph) # {}
    THEN Frac(total_dependencies(graph), Cardinality(fan_in_keys(graph)))
    ELSE Frac(0, 1)

\* max(0, 10 - (avg_fan_out + avg_fan_in) / 4)
coupling_score(graph) ==
    LET s == FracAdd(avg_fan_out(graph), avg_fan_in(graph))
    IN  max_zero(Frac(40 * s.den - s.num, 4 * s.den))

\* internal_deps and external_deps of one package
internal_deps(modules, deps) ==
    sum_over([i \in 1..Len(modules) |->
                 Cardinality({dep \in GetSet(deps, modules[i]) : dep \in names_in(modules)})],
             1..Len(modules))

external_deps(modules, deps) ==
    sum_over([i \in 1..Len(modules) |->
                 Cardinality({dep \in GetSet(deps, modules[i]) : dep \notin names_in(modules)})],
             1..Len(modules))

\* the packages that append a cohesion to package_cohesion_scores
cohesion_packages(packages, deps) ==
    {p \in DOMAIN packages :
        /\ Len(packages[p]) > 1
        /\ internal_deps(packages[p], deps) + external_deps(packages[p], deps) > 0}

package_cohesion(modules, deps) ==
    Frac(internal_deps(modules, deps),
         internal_deps(modules, deps) + external_deps(modules, deps))

RECURSIVE frac_sum(_, _)
frac_sum(f, S) ==
    IF S = {} THEN Frac(0, 1)
    ELSE LET x == CHOOSE y \in S : TRUE IN FracAdd(f[x], frac_sum(f, S \ {x}))

\* avg_cohesion * 10
cohesion_score(packages, deps) ==
    LET scored == cohesion_packages(packages, deps)
        total  == frac_sum([p \in scored |-> package_cohesion(packages[p], deps)], scored)
    IN  IF scored # {}
        THEN Frac(10 * total.num, total.den * Cardinality(scored))
        ELSE Frac(10, 2)

\* avg_depth
depth_of_inheritance(hierarchy) ==
    IF DOMAIN hierarchy # {}
    THEN Frac(sum_over([c \in DOMAIN hierarchy |-> _calculate_inheritance_depth(c, hierarchy)],
                       DOMAIN hierarchy),
              Cardinality(DOMAIN hierarchy))
    ELSE Frac(3, 2)

\* v['type'] of line 417 raises TypeError on a str
srp_raises(violations) == \E i \in 1..Len(violations) : violations[i].kind = "str"

srp_violations(violations) ==
    Cardinality({i \in 1..Len(violations) : violations[i].type = "solid_srp"})

\* the variant whose pattern bonus has no cap
overall_score_uncapped_bonus(deps, files, violations, patterns) ==
    LET v == min_int(50, Len(violations))
        b == Cardinality(patterns)
    IN  IF files > 0
        THEN max_zero(Frac(160 * files - 2 * files * v
                             - min_int(40 * files, 10 * (deps - 2 * files))
                             + 2 * files * b,
                           20 * files))
        ELSE max_zero(Frac(80 - v + b, 10))

\* max(0, 8.0 - violation_penalty - complexity_penalty + pattern_bonus) with
\*   violation_penalty  = min(5, len(violations) * 0.1)
\*   complexity_penalty = min(2, (total_dependencies / total_files - 2) * 0.5) if total_files > 0 else 0
\*   pattern_bonus      = min(1, len(design_patterns) * 0.1)
overall_score(deps, files, violations, patterns) ==
    LET v == min_int(50, Len(violations))
        b == min_int(10, Cardinality(patterns))
    IN  IF files > 0
        THEN max_zero(Frac(160 * files - 2 * files * v
                             - min_int(40 * files, 10 * (deps - 2 * files))
                             + 2 * files * b,
                           20 * files))
        ELSE max_zero(Frac(80 - v + b, 10))

\* the dict returned when the cycle detection found n cycles
architecture_metrics(graph, deps, hierarchy, packages, patterns, violations, files, n) ==
    [overall_score         |-> overall_score(total_dependencies(graph), files, violations, patterns),
     dependency_count      |-> total_dependencies(graph),
     circular_dependencies |-> n,
     coupling_score        |-> coupling_score(graph),
     cohesion_score        |-> cohesion_score(packages, deps),
     srp_violations        |-> srp_violations(violations),
     module_count          |-> Cardinality(DOMAIN graph),
     depth_of_inheritance  |-> depth_of_inheritance(hierarchy)]

calculate_frame ==
    /\ UNCHANGED <<source_files, dependency_graph, module_dependencies, class_hierarchy,
                   package_structure, design_patterns_found, architecture_violations,
                   total_files, visited, rec_stack, cycles, dfs_stack, report>>
    /\ UNCHANGED <<orch_vars, calc_vars>>

\* line 417 raises: the TypeError leaves _calculate_architecture_metrics and analyze
calculate_raises ==
    /\ detection_done
    /\ srp_raises(architecture_violations)
    /\ apc' = "raised"
    /\ UNCHANGED metrics
    /\ calculate_frame

\* _calculate_architecture_metrics returns its dict
_calculate_architecture_metrics ==
    /\ detection_done
    /\ ~srp_raises(architecture_violations)
    /\ metrics' = architecture_metrics(dependency_graph, module_dependencies, class_hierarchy,
                                       package_structure, design_patterns_found,
                                       architecture_violations, total_files, Len(cycles))
    /\ apc' = "metrics"
    /\ calculate_frame

\* ArchitectureMetrics(score=round(..., 1), ...), the floats in tenths
ArchitectureMetrics(m) ==
    [score                 |-> round_1(m.overall_score),
     dependency_count      |-> m.dependency_count,
     circular_dependencies |-> m.circular_dependencies,
     coupling_score        |-> round_1(m.coupling_score),
     cohesion_score        |-> round_1(m.cohesion_score),
     srp_violations        |-> m.srp_violations,
     module_count          |-> m.module_count,
     depth_of_inheritance  |-> round_1(m.depth_of_inheritance)]

\* analyze returns
analyze_return ==
    /\ apc = "metrics"
    /\ report' = ArchitectureMetrics(metrics)
    /\ apc' = "returned"
    /\ UNCHANGED <<source_files, dependency_graph, module_dependencies, class_hierarchy,
                   package_structure, design_patterns_found, architecture_violations,
                   total_files, visited, rec_stack, cycles, dfs_stack, metrics>>
    /\ UNCHANGED <<orch_vars, calc_vars>>

----------------------------------------------------------------------------
(* AnalyzeSpec: analyze on lists of files of a small repository.  The files  *)
(* import each other (module_a and module_b in a cycle), the standard        *)
(* library and third-party packages; two of them hold design-principle       *)
(* violations, one cannot be opened and one is blank.                        *)

\* the longest list handed to analyze
MaxFiles == 3

File(stem, parent, references) ==
    [stem |-> stem, parent |-> parent, readable |-> TRUE, blank |-> FALSE,
     references |-> references, inheritance |-> << >>, patterns |-> {},
     violations |-> << >>]

Files ==
    {File("module_a", "pkg", {<<"module_b">>, <<"os", "path">>, <<"sys">>}),
     [File("module_b", "pkg", {<<"module_a">>, <<"external_lib">>})
        EXCEPT !.inheritance = [c \in {"Child"} |-> {"Parent"}]],
     [File("module_c", "lib", {<<"module_a">>, <<"module_b">>, <<"json", "decoder">>,
                               <<"com", "acme", "lib">>, <<"", "models">>})
        EXCEPT !.patterns = {"singleton_pattern"}],
     File("module_a", "lib", {<<"module_c">>, <<"os">>}),
     [File("views", "lib", {<<"module_c">>})
        EXCEPT !.violations = <<"solid_ocp", "solid_lsp">>],
     [File("service", "pkg", {})
        EXCEPT !.violations = <<"solid_srp">>],
     [File("missing", "pkg", {<<"module_a">>}) EXCEPT !.readable = FALSE],
     [File("blank", "pkg", {}) EXCEPT !.blank = TRUE]}

\* the lists of 1..n different files
FileLists(n) ==
    UNION {{fs \in [1..k -> Files] : \A i, j \in 1..k : i # j => fs[i] # fs[j]} : k \in 1..n}

InitAnalyze ==
    /\ orchestrator_init
    /\ calculator_idle
    /\ source_files \in FileLists(MaxFiles)
    /\ dependency_graph = << >>
    /\ module_dependencies = << >>
    /\ class_hierarchy = << >>
    /\ package_structure = << >>
    /\ design_patterns_found = {}
    /\ architecture_violations = << >>
    /\ total_files = 0
    /\ visited = {}
    /\ rec_stack = {}
    /\ cycles = << >>
    /\ dfs_stack = << >>
    /\ metrics = << >>
    /\ report = << >>
    /\ apc = "start"

NextAnalyze ==
    \/ analyze
    \/ dfs_root
    \/ dfs_neighbor
    \/ dfs_return
    \/ calculate_raises
    \/ _calculate_architecture_metrics
    \/ analyze_return

AnalyzeSpec == InitAnalyze /\ [][NextAnalyze]_vars

----------------------------------------------------------------------------
(* Claims about the architecture analyzer *)

\* the files analyze does not skip
is_skipped(file) == ~file.readable \/ file.blank

\* the violation types detected in the files that are analysed, in order
RECURSIVE detected_violations(_)
detected_violations(files) ==
    IF files = << >> THEN << >>
    ELSE (IF is_skipped(Head(files)) THEN << >> ELSE Head(files).violations)
         \o detected_violations(Tail(files))

count_of(seq, x) == Cardinality({i \in 1..Len(seq) : seq[i] = x})

\* C11: for every list of readable source files, also when design-principle
\* violations are detected in them, analyze does not raise, and the record it
\* returns has srp_violations equal to the number of detected violations of
\* type solid_srp.
C11_AnalyzeNeverRaises ==
    (\A i \in 1..Len(source_files) : source_files[i].readable) =>
        /\ apc # "raised"
        /\ apc = "returned" =>
              report.srp_violations = count_of(detected_violations(source_files), "solid_srp")

\* the files of the list that are analysed, and those among them named m
analysed_files == {source_files[i] : i \in {j \in 1..Len(source_files) : ~is_skipped(source_files[j])}}

analysed_named(m) == {f \in analysed_files : f.stem = m}

\* the dependencies the analysed files named m contribute
contributed(m) == UNION {_extract_dependencies(f.references) : f \in analysed_named(m)}

unreadable_files == {source_files[i] : i \in {j \in 1..Len(source_files) : ~source_files[j].readable}}

\* C12: a file that fails on open/read does not abort analyze: its per-file
\* analysis is empty, it adds no module node and no edge, analyze raises only
\* when a file that was read holds a violation (C11), and the modules and
\* dependencies of every other file are in the graph and in the returned metrics.
C12_UnreadableFileSkipped ==
    apc # "start" =>
        /\ \A f \in unreadable_files : DOMAIN _analyze_file_architecture(f) = {}
        /\ DOMAIN dependency_graph = {f.stem : f \in analysed_files}
        /\ \A m \in DOMAIN dependency_graph : dependency_graph[m] = contributed(m)
        /\ apc = "raised" => detected_violations(source_files) # << >>
        /\ apc = "returned" =>
              /\ report.module_count = Cardinality({f.stem : f \in analysed_files})
              /\ report.dependency_count =
                    sum_over([m \in DOMAIN dependency_graph |-> Cardinality(contributed(m))],
                             DOMAIN dependency_graph)

\* analyze has returned for a list with a file that cannot be opened and
\* another file that has dependencies
C12_Witness ==
    /\ apc = "returned"
    /\ unreadable_files # {}
    /\ report.module_count >= 1
    /\ report.dependency_count >= 1

\* the list without its k-th file
without(files, k) == SubSeq(files, 1, k - 1) \o SubSeq(files, k + 1, Len(files))

\* what analyze returns for files when the cycle detection finds n cycles
analyze_report(files, n) ==
    LET st == analyze_loop(empty_structures, files)
    IN  ArchitectureMetrics(
            architecture_metrics(st.dependency_graph, st.module_dependencies,
                                 st.class_hierarchy, st.package_structure,
                                 st.design_patterns_found, st.architecture_violations,
                                 Len(files), n))

\* C13: a skipped (unopenable or blank) file is excluded from all metric
\* computations: the record analyze returns for a list that holds such a file
\* is, field by field, the record it returns for the list without that file.
C13_SkippedFileChangesNothing ==
    apc = "returned" =>
        \A k \in 1..Len(source_files) :
            is_skipped(source_files[k]) =>
                report = analyze_report(without(source_files, k), report.circular_dependencies)

----------------------------------------------------------------------------
(* MetricsCalculator.calculate_overall_metrics of core/orchestrator.py.  A   *)
(* dimension is the metrics object handed in, or None (present = FALSE), and *)
(* value is the score attribute the calculator reads from it, in tenths.     *)

Dimension(value) == [present |-> TRUE, value |-> value]

NoDimension == [present |-> FALSE, value |-> 0]

\* getattr(x, name, 0)
score_of(dimension) == IF dimension.present THEN dimension.value ELSE 0

\* the severity taken as the score, not inverted
smell_score_uninverted(code_smells) ==
    IF code_smells.present THEN code_smells.value ELSE 100

\* max(0, 10 - getattr(code_smells, 'severity_score', 0)) if code_smells else 10
smell_score(code_smells) ==
    IF code_smells.present
    THEN (IF 100 - code_smells.value < 0 THEN 0 ELSE 100 - code_smells.value)
    ELSE 100

\* the weights, in hundredths
weights ==
    [code_quality |-> 25, architecture |-> 20, code_smells |-> 15,
     tests |-> 20, docs |-> 10, sustainability |-> 10]

\* overall_score before rounding
weighted_sum(d) ==
    Frac(score_of(d.code_quality) * weights.code_quality
           + score_of(d.architecture) * weights.architecture
           + smell_score(d.code_smells) * weights.code_smells
           + score_of(d.tests) * weights.tests
           + score_of(d.docs) * weights.docs
           + score_of(d.sustainability) * weights.sustainability,
         1000)

\* OverallMetrics(overall_score=round(overall_score, 1), ...), in tenths
calculate_overall_metrics ==
    /\ dimensions # << >>
    /\ overall_metrics = << >>
    /\ overall_metrics' = [overall_score |-> round_1(weighted_sum(dimensions))]
    /\ UNCHANGED <<dimensions, metrics_arg, recommendations, rpc>>
    /\ UNCHANGED <<orch_vars, arch_vars>>

----------------------------------------------------------------------------
(* MetricsCalculator.generate_recommendations of core/orchestrator.py.  The  *)
(* metrics object and its six records are objects or None; scores are in     *)
(* tenths, comment_density and test_to_source_ratio in hundredths.           *)

\* hasattr(x, name): false for None
hasattr(x, name) == x.present /\ name \in DOMAIN x.attrs

\* x.name, of an object that has the attribute
attr(x, name) == x.attrs[name]

\* a Recommendation; impact and effort are fixed texts of the rule
Recommendation(priority, category, description, files_affected) ==
    [priority |-> priority, category |-> category, description |-> description,
     files_affected |-> files_affected]

\* hotspot_files[:5]
first_five(files) == SubSeq(files, 1, IF Len(files) < 5 THEN Len(files) ELSE 5)

\* hasattr(x, name) and getattr(x, name, ...) < threshold
below(x, name, threshold) == hasattr(x, name) /\ attr(x, name) < threshold

fires(condition, recommendation) == IF condition THEN <<recommendation>> ELSE << >>

quality_rule(m) ==
    fires(below(m.attrs.code_quality, "overall_score", 60),
          Recommendation("high", "Code Quality",
                         "Reduce cyclomatic complexity in complex functions", << >>))

comment_rule(m) ==
    fires(below(m.attrs.code_quality, "comment_density", 10),
          Recommendation("medium", "Code Quality",
                         "Increase code documentation and comments", << >>))

circular_rule(m) ==
    fires(hasattr(m.attrs.architecture, "circular_dependencies")
            /\ attr(m.attrs.architecture, "circular_dependencies") > 0,
          Recommendation("critical", "Architecture",
                         "Resolve circular dependencies between modules", << >>))

\* the threshold met as well
coupling_rule_from_threshold(m) ==
    fires(attr(m.attrs.architecture, "coupling_score") >= 70,
          Recommendation("high", "Architecture",
                         "Reduce coupling between modules", << >>))

coupling_rule(m) ==
    fires(attr(m.attrs.architecture, "coupling_score") > 70,
          Recommendation("high", "Architecture",
                         "Reduce coupling between modules", << >>))

smells_rule(m) ==
    IF attr(m.attrs.code_smells, "total_count") > 50
    THEN <<Recommendation("high", "Code Smells",
                          "Address high-priority code smells in hotspot files",
                          first_five(attr(m.attrs.code_smells, "hotspot_files")))>>
    ELSE << >>

coverage_rule(m) ==
    fires(below(m.attrs.tests, "coverage_score", 70),
          Recommendation("high", "Testing",
                         "Increase test coverage, especially for critical modules", << >>))

ratio_rule(m) ==
    fires(below(m.attrs.tests, "test_to_source_ratio", 30),
          Recommendation("medium", "Testing",
                         "Add more comprehensive test cases", << >>))

documentation_rule(m) ==
    fires(below(m.attrs.documentation, "score", 60),
          Recommendation("medium", "Documentation",
                         "Improve API documentation and code comments", << >>))

guide_rule(m) ==
    fires(~attr(m.attrs.documentation, "has_contributing_guide"),
          Recommendation("low", "Documentation",
                         "Add CONTRIBUTING.md guide for new contributors", << >>))

sustainability_rule(m) ==
    fires(below(m.attrs.sustainability, "score", 60),
          Recommendation("medium", "Sustainability",
                         "Increase commit frequency and contributor diversity", << >>))

bus_factor_rule(m) ==
    fires(below(m.attrs.sustainability, "bus_factor", 3),
          Recommendation("high", "Sustainability",
                         "Reduce bus factor by spreading knowledge across team", << >>))

\* the list before it is sorted
appended(m) ==
    quality_rule(m) \o comment_rule(m) \o circular_rule(m) \o coupling_rule(m)
      \o smells_rule(m) \o coverage_rule(m) \o ratio_rule(m) \o documentation_rule(m)
      \o guide_rule(m) \o sustainability_rule(m) \o bus_factor_rule(m)

\* the attribute reads that are not behind hasattr: metrics.code_quality of
\* None, architecture.coupling_score, code_smells.total_count, hotspot_files
\* when the rule fires, documentation.has_contributing_guide
attribute_error(m) ==
    \/ ~m.present
    \/ ~hasattr(m.attrs.architecture, "coupling_score")
    \/ ~hasattr(m.attrs.code_smells, "total_count")
    \/ (attr(m.attrs.code_smells, "total_count") > 50
          /\ ~hasattr(m.attrs.code_smells, "hotspot_files"))
    \/ ~hasattr(m.attrs.documentation, "has_contributing_guide")

priority_order == [critical |-> 0, high |-> 1, medium |-> 2, low |-> 3]

\* the list left as appended
sort_skipped(recs) == recs

\* recommendations.sort(key=lambda r: priority_order[r.priority]): stable
sort_by_priority(recs) ==
    LET of_rank(k) == SelectSeq(recs, LAMBDA r : priority_order[r.priority] = k)
    IN  of_rank(0) \o of_rank(1) \o of_rank(2) \o of_rank(3)

generate_recommendations ==
    /\ rpc = "ready"
    /\ IF attribute_error(metrics_arg)
       THEN /\ rpc' = "raised"
            /\ recommendations' = << >>
       ELSE /\ rpc' = "returned"
            /\ recommendations' = sort_by_priority(appended(metrics_arg))
    /\ UNCHANGED <<dimensions, overall_metrics, metrics_arg>>
    /\ UNCHANGED <<orch_vars, arch_vars>>

\* the six records of an OverallMetrics
OverallMetrics(code_quality, architecture, code_smells, tests, documentation, sustainability) ==
    Record([code_quality |-> code_quality, architecture |-> architecture,
            code_smells |-> code_smells, tests |-> tests,
            documentation |-> documentation, sustainability |-> sustainability])

\* the records of the other five analyzers for a repository in good health,
\* and for one in poor health
HealthyRepository ==
    [code_quality   |-> Record([overall_score |-> 95, comment_density |-> 25]),
     code_smells    |-> Record([total_count |-> 2, hotspot_files |-> << >>]),
     tests          |-> Record([coverage_score |-> 85, test_to_source_ratio |-> 60]),
     documentation  |-> Record([score |-> 80, has_contributing_guide |-> TRUE]),
     sustainability |-> Record([score |-> 90, bus_factor |-> 5])]

PoorRepository ==
    [code_quality   |-> Record([overall_score |-> 50, comment_density |-> 15]),
     code_smells    |-> Record([total_count |-> 15, hotspot_files |-> <<"views.py">>]),
     tests          |-> Record([coverage_score |-> 30, test_to_source_ratio |-> 10]),
     documentation  |-> Record([score |-> 45, has_contributing_guide |-> FALSE]),
     sustainability |-> Record([score |-> 80, bus_factor |-> 1])]

\* RepositoryAnalyzer.analyze: the record the architecture analyzer returned
\* goes into the OverallMetrics the recommendations are generated from
overall_metrics_of(others) ==
    /\ apc = "metrics"
    /\ rpc = "idle"
    /\ metrics_arg' = OverallMetrics(others.code_quality,
                                     Record(ArchitectureMetrics(metrics)),
                                     others.code_smells, others.tests,
                                     others.documentation, others.sustainability)
    /\ rpc' = "ready"
    /\ UNCHANGED <<dimensions, overall_metrics, recommendations>>
    /\ UNCHANGED <<orch_vars, arch_vars>>

----------------------------------------------------------------------------
(* MetricsSpec: _calculate_architecture_metrics called on its own, as the    *)
(* tests call it, on three families of arguments:                            *)
(*   every dependency graph over three modules, a dependency on a module     *)
(*     that is not a key being a target that is no node, with the modules    *)
(*     spread over one or two directories;                                   *)
(*   every class hierarchy over three classes, and the two-class cycle;      *)
(*   few graphs with every mix of violation list, pattern set and file count;*)
(* and calculate_overall_metrics called on its own on six dimensions, each   *)
(* None or a score inside or outside [0, 10].                                *)

Modules == {"module_a", "module_b", "module_c"}

Graphs == UNION {[keys -> SUBSET Modules] : keys \in SUBSET Modules}

\* the elements of a set as a list
RECURSIVE SeqOf(_)
SeqOf(S) ==
    IF S = {} THEN << >>
    ELSE LET x == CHOOSE y \in S : TRUE IN <<x>> \o SeqOf(S \ {x})

\* the modules of keys by directory: those of in_lib in lib, the others in pkg
Packages(keys, in_lib) ==
    [p \in {q \in {"pkg", "lib"} :
               (q = "pkg" /\ keys \ in_lib # {}) \/ (q = "lib" /\ keys \cap in_lib # {})} |->
        IF p = "pkg" THEN SeqOf(keys \ in_lib) ELSE SeqOf(keys \cap in_lib)]

Layouts == {{}, {"module_c"}, {"module_b", "module_c"}}

Arguments(graph, packages, hierarchy, violations, patterns, files) ==
    [graph |-> graph, packages |-> packages, hierarchy |-> hierarchy,
     violations |-> violations, patterns |-> patterns, files |-> files]

GraphArguments ==
    {Arguments(g, Packages(DOMAIN g, in_lib), << >>, << >>, {}, Cardinality(DOMAIN g)) :
        g \in Graphs, in_lib \in Layouts}

Classes == {"Child", "Parent", "GrandParent"}

Hierarchies ==
    UNION {[keys -> SUBSET Classes] : keys \in SUBSET Classes}
    \cup {[c \in {"A", "B"} |-> IF c = "A" THEN {"B"} ELSE {"A"}]}

HierarchyArguments ==
    {Arguments(<< >>, << >>, h, << >>, {}, 0) : h \in Hierarchies}

\* more violations than the penalty counts, more patterns than the bonus counts
ManyViolations == 60

ManyPatterns == 12

ViolationLists ==
    {<< >>,
     <<DictViolation("solid_srp"), DictViolation("solid_ocp")>>,
     [i \in 1..ManyViolations |-> DictViolation("solid_srp")],
     <<StrViolation("solid_srp")>>}

PatternSets ==
    {{}, {"singleton_pattern", "factory_pattern"}, 1..ManyPatterns}

FileCounts == {0, 1, 3}

ScoringGraphs ==
    {<< >>,
     [m \in Modules |-> CASE m = "module_a" -> {"module_b", "module_c"}
                          [] m = "module_b" -> {"module_c"}
                          [] OTHER -> {}],
     [m \in {"module_a"} |-> {"requests", "numpy", "flask", "yaml", "attr", "six", "module_b"}]}

ScoringArguments ==
    {Arguments(g, Packages(DOMAIN g, {}), << >>, v, p, n) :
        g \in ScoringGraphs, v \in ViolationLists, p \in PatternSets, n \in FileCounts}

\* scores in tenths: 0, 5.5, 10, and 12, which is off the scale
DimensionValues == {NoDimension, Dimension(0), Dimension(55), Dimension(100), Dimension(120)}

DimensionNames == {"code_quality", "architecture", "code_smells", "tests", "docs", "sustainability"}

\* the dimensions handed in next to the scoring arguments: full marks with
\* no smells object, and 5.5 everywhere
ScoringDimensions ==
    {[n \in DimensionNames |-> IF n = "code_smells" THEN NoDimension ELSE Dimension(100)],
     [n \in DimensionNames |-> Dimension(55)]}

\* quality 8.0, architecture 6.0, severity 2.0, tests 7.0, docs 5.0,
\* sustainability 9.0
ExampleDimensions ==
    [code_quality |-> Dimension(80), architecture |-> Dimension(60),
     code_smells |-> Dimension(20), tests |-> Dimension(70),
     docs |-> Dimension(50), sustainability |-> Dimension(90)]

\* every rule on either side of its threshold, or at it: scores in tenths,
\* densities and ratios in hundredths
HotspotLists == {<<"a.py", "b.py">>, <<"a.py", "b.py", "c.py", "d.py", "e.py", "f.py">>}

ThresholdMetrics ==
    {OverallMetrics(Record([overall_score |-> q, comment_density |-> c]),
                    Record([circular_dependencies |-> k, coupling_score |-> p]),
                    Record([total_count |-> n, hotspot_files |-> h]),
                    Record([coverage_score |-> v, test_to_source_ratio |-> r]),
                    Record([score |-> d, has_contributing_guide |-> g]),
                    Record([score |-> u, bus_factor |-> b])) :
        q \in {50, 60}, c \in {5, 10}, k \in {0, 1}, p \in {70, 94}, n \in {50, 51},
        h \in HotspotLists, v \in {65, 70}, r \in {20, 30}, d \in {45, 60},
        g \in BOOLEAN, u \in {55, 60}, b \in {2, 3}}

\* no rule fires, and every rule fires
NoneFiring ==
    OverallMetrics(Record([overall_score |-> 60, comment_density |-> 10]),
                   Record([circular_dependencies |-> 0, coupling_score |-> 70]),
                   Record([total_count |-> 50, hotspot_files |-> <<"a.py", "b.py">>]),
                   Record([coverage_score |-> 70, test_to_source_ratio |-> 30]),
                   Record([score |-> 60, has_contributing_guide |-> TRUE]),
                   Record([score |-> 60, bus_factor |-> 3]))

AllFiring ==
    OverallMetrics(Record([overall_score |-> 50, comment_density |-> 5]),
                   Record([circular_dependencies |-> 1, coupling_score |-> 94]),
                   Record([total_count |-> 51, hotspot_files |-> <<"a.py", "b.py">>]),
                   Record([coverage_score |-> 65, test_to_source_ratio |-> 20]),
                   Record([score |-> 45, has_contributing_guide |-> FALSE]),
                   Record([score |-> 55, bus_factor |-> 2]))

DimensionRecords ==
    {"code_quality", "architecture", "code_smells", "tests", "documentation", "sustainability"}

\* m with the record of dimension d replaced
with_record(m, d, record) ==
    Record([n \in DOMAIN m.attrs |-> IF n = d THEN record ELSE m.attrs[n]])

\* the record x without the attribute name
without_attr(x, name) ==
    Record([a \in DOMAIN x.attrs \ {name} |-> x.attrs[a]])

\* None for the metrics object; one record None, without any attribute, or
\* without one attribute
MissingMetrics ==
    {NoRecord}
      \cup {with_record(m, d, NoRecord) : m \in {NoneFiring, AllFiring}, d \in DimensionRecords}
      \cup {with_record(m, d, Record(<< >>)) : m \in {NoneFiring, AllFiring}, d \in DimensionRecords}
      \cup UNION {{with_record(m, d, without_attr(m.attrs[d], a)) : a \in DOMAIN m.attrs[d].attrs} :
                     m \in {NoneFiring, AllFiring}, d \in DimensionRecords}

InitMetrics ==
    /\ orchestrator_init
    /\ source_files = << >>
    /\ \/ /\ \E a \in GraphArguments \cup HierarchyArguments \cup ScoringArguments :
                /\ dependency_graph = a.graph
                /\ module_dependencies = a.graph
                /\ class_hierarchy = a.hierarchy
                /\ package_structure = a.packages
                /\ design_patterns_found = a.patterns
                /\ architecture_violations = a.violations
                /\ total_files = a.files
                /\ dimensions \in (IF a \in ScoringArguments THEN ScoringDimensions ELSE {<< >>})
          /\ apc = "detect"
          /\ metrics_arg = NoRecord
          /\ rpc = "idle"
       \/ /\ dependency_graph = << >>
          /\ module_dependencies = << >>
          /\ class_hierarchy = << >>
          /\ package_structure = << >>
          /\ design_patterns_found = {}
          /\ architecture_violations = << >>
          /\ total_files = 0
          /\ apc = "idle"
          /\ \/ /\ dimensions \in [DimensionNames -> DimensionValues] \cup {ExampleDimensions}
                /\ metrics_arg = NoRecord
                /\ rpc = "idle"
             \/ /\ dimensions = << >>
                /\ metrics_arg \in ThresholdMetrics \cup MissingMetrics
                /\ rpc = "ready"
    /\ visited = {}
    /\ rec_stack = {}
    /\ cycles = << >>
    /\ dfs_stack = << >>
    /\ metrics = << >>
    /\ report = << >>
    /\ overall_metrics = << >>
    /\ recommendations = << >>

NextMetrics ==
    \/ dfs_root
    \/ dfs_neighbor
    \/ dfs_return
    \/ calculate_raises
    \/ _calculate_architecture_metrics
    \/ calculate_overall_metrics
    \/ \E others \in {HealthyRepository, PoorRepository} : overall_metrics_of(others)
    \/ generate_recommendations

MetricsSpec == InitMetrics /\ [][NextMetrics]_vars

\* the call runs on once made: single-threaded, synchronous
FairMetricsSpec == MetricsSpec /\ WF_vars(NextMetrics)

----------------------------------------------------------------------------
(* Claims about the cycle detection *)

\* everything reachable from the nodes of frontier by one or more edges of g
RECURSIVE graph_reach(_, _, _)
graph_reach(g, frontier, seen) ==
    LET next == UNION {GetSet(g, n) : n \in frontier}
    IN  IF next \subseteq seen THEN seen
        ELSE graph_reach(g, next \ seen, seen \cup next)

\* g has a directed cycle
graph_has_cycle(g) == \E n \in DOMAIN g : n \in graph_reach(g, {n}, {})

ring_graph ==
    [m \in Modules |-> CASE m = "module_a" -> {"module_b"}
                         [] m = "module_b" -> {"module_c"}
                         [] OTHER -> {"module_a"}]

layered_graph ==
    [m \in Modules |-> CASE m = "module_a" -> {"module_b", "module_c"}
                         [] m = "module_b" -> {"module_c"}
                         [] OTHER -> {}]

\* _detect_circular_dependencies has returned its list
detection_returned == detection_done \/ apc \in {"metrics", "raised"}

C14_CyclesFoundIffCyclic ==
    detection_returned =>
        /\ (cycles = << >>) <=> ~graph_has_cycle(dependency_graph)
        /\ dependency_graph = ring_graph =>
              \E k \in 1..Len(cycles) : Modules \subseteq names_in(cycles[k])
        /\ dependency_graph = layered_graph => cycles = << >>

\* C14: on every finite dependency graph, targets that are no nodes included,
\* and in every order of visiting nodes and neighbours, the cycle detection
\* terminates and its list is empty if and only if the graph has no directed
\* cycle; on the ring a -> b -> c -> a it holds a cycle with a, b and c, and on
\* {a:{b,c}, b:{c}, c:{}} it is empty.
C14_DetectionTerminatesAndDecides ==
    /\ [] C14_CyclesFoundIffCyclic
    /\ <> (apc # "detect")

\* the detection has returned a cycle on a graph with an edge to a target that
\* is no node
C14_Witness ==
    /\ detection_returned
    /\ cycles # << >>
    /\ \E m \in DOMAIN dependency_graph : ~(dependency_graph[m] \subseteq DOMAIN dependency_graph)

is_edge(a, b) == b \in GetSet(dependency_graph, a)

\* C15 as stated: every returned cycle is the sub-path alone, so that each
\* entry is followed by an edge to the next one and the last by an edge to
\* the first.
C15_WrapAroundIsEdge ==
    \A k \in 1..Len(cycles) :
        LET c == cycles[k]
        IN  \A i \in 1..Len(c) : is_edge(c[i], c[(i % Len(c)) + 1])

cycles_are_closed_walks ==
    \A k \in 1..Len(cycles) :
        LET c == cycles[k]
        IN  /\ Len(c) >= 2
            /\ c[1] = c[Len(c)]
            /\ \A i \in 1..(Len(c) - 1) : is_edge(c[i], c[i + 1])
            /\ \A i, j \in 1..(Len(c) - 1) : i # j => c[i] # c[j]

cycle_is_sub_path_closed ==
    cycles' # cycles =>
        LET path == dfs_path(dfs_stack)
            c    == cycles'[Len(cycles')]
        IN  /\ cycles' = Append(cycles, c)
            /\ \E i \in 1..Len(path) :
                  /\ path[i] = c[1]
                  /\ \A j \in 1..(i - 1) : path[j] # c[1]
                  /\ c = SubSeq(path, i, Len(path)) \o <<c[1]>>

\* C15: every cycle the detection records is the sub-path of the current DFS
\* path from the first occurrence of the re-reached node through the current
\* node, followed by the re-reached node once more: it starts and ends with
\* the same node, and every pair of consecutive entries is an edge.
C15_CycleIsClosedSubPath ==
    /\ [] cycles_are_closed_walks
    /\ [][cycle_is_sub_path_closed]_vars

\* a cycle that starts below the root of the DFS path has been recorded
C15_Witness ==
    \E k \in 1..Len(cycles) :
        /\ Len(cycles[k]) >= 3
        /\ dfs_stack # << >>
        /\ dfs_stack[1].node # cycles[k][1]

----------------------------------------------------------------------------
(* Claims about the metrics *)

\* the number of modules that depend on m
fan_in_of(g, m) == Cardinality({n \in DOMAIN g : m \in g[n]})

\* clamp(x, 0, 10)
clamp_0_10(x) ==
    IF x.num < 0 THEN Frac(0, 1) ELSE IF FracLe(Frac(10, 1), x) THEN Frac(10, 1) ELSE x

\* clamp(10 - (avg fan-out + avg fan-in) / 4, 0, 10), both averages over the
\* module nodes of g
coupling_over_modules(g) ==
    LET n   == Cardinality(DOMAIN g)
        out == sum_over([m \in DOMAIN g |-> Cardinality(g[m])], DOMAIN g)
        in  == sum_over([m \in DOMAIN g |-> fan_in_of(g, m)], DOMAIN g)
    IN  clamp_0_10(Frac(40 * n - (out + in), 4 * n))

\* C16: coupling_score is clamp(10 - (avg fan-out + avg fan-in)/4, 0, 10) with
\* both averages taken over all module nodes, a module nobody references
\* counting with fan-in 0; on {a:{b,c}, b:{c}, c:{}} it is 9.5.
C16_CouplingAveragesOverModules ==
    (apc = "metrics" /\ DOMAIN dependency_graph # {}) =>
        /\ FracEq(metrics.coupling_score, coupling_over_modules(dependency_graph))
        /\ dependency_graph = layered_graph => FracEq(metrics.coupling_score, Frac(19, 2))

\* the ancestors of class c: what the parent relation reaches from it
ancestors(h, c) == graph_reach(h, {c}, {})

\* a cycle of the parent relation can be reached from c
reaches_parent_cycle(h, c) == \E n \in ancestors(h, c) \cup {c} : n \in ancestors(h, n)

chain_hierarchy ==
    [c \in Classes |-> CASE c = "Child" -> {"Parent"}
                         [] c = "Parent" -> {"GrandParent"}
                         [] OTHER -> {}]

circular_hierarchy == [c \in {"A", "B"} |-> IF c = "A" THEN {"B"} ELSE {"A"}]

\* C17: on every finite class-to-parents map _calculate_inheritance_depth
\* terminates; it is 0 for a class from which a cycle of the parent relation
\* can be reached, otherwise 1 for a class without parents and 1 + the largest
\* depth of its parents for any other class: 3, 2, 1 along Child -> Parent ->
\* GrandParent and 0 for both classes of {A:[B], B:[A]}.
C17_InheritanceDepth ==
    LET h == class_hierarchy
        depth(c) == _calculate_inheritance_depth(c, h)
    IN  /\ \A c \in DOMAIN h \cup UNION {h[k] : k \in DOMAIN h} :
              IF reaches_parent_cycle(h, c) THEN depth(c) = 0
              ELSE IF GetSet(h, c) = {} THEN depth(c) = 1
              ELSE depth(c) = 1 + max_of({depth(p) : p \in h[c]})
        /\ h = chain_hierarchy =>
              depth("Child") = 3 /\ depth("Parent") = 2 /\ depth("GrandParent") = 1
        /\ h = circular_hierarchy => depth("A") = 0 /\ depth("B") = 0
        /\ (apc = "metrics" /\ DOMAIN h # {}) =>
              FracEq(metrics.depth_of_inheritance,
                     Frac(sum_over([c \in DOMAIN h |-> depth(c)], DOMAIN h),
                          Cardinality(DOMAIN h)))

\* the depth has been computed for a class that is on no cycle itself but
\* has an ancestor on one, next to a class of positive depth
C17_Witness ==
    /\ apc = "metrics"
    /\ \E c \in DOMAIN class_hierarchy :
          /\ reaches_parent_cycle(class_hierarchy, c)
          /\ c \notin ancestors(class_hierarchy, c)
    /\ \E c \in DOMAIN class_hierarchy : ~reaches_parent_cycle(class_hierarchy, c)
    /\ metrics.depth_of_inheritance.num > 0

in_0_10(x) == FracLe(Frac(0, 1), x) /\ FracLe(x, Frac(10, 1))

\* every dimension handed in has its score in [0, 10]
dimensions_in_range ==
    \A n \in DOMAIN dimensions : dimensions[n].value >= 0 /\ dimensions[n].value <= 100

\* C18: every bounded score is in [0, 10]: for any dependency graph, class
\* hierarchy, violation list, pattern set and file count the architecture
\* score, coupling_score and cohesion_score of the returned metrics are in
\* [0, 10] and the counts and depth_of_inheritance are not negative, and when
\* the six dimension inputs are in [0, 10] so is the aggregated overall_score.
C18_ScoresInRange ==
    /\ apc = "metrics" =>
          /\ in_0_10(metrics.overall_score)
          /\ in_0_10(metrics.coupling_score)
          /\ in_0_10(metrics.cohesion_score)
          /\ metrics.dependency_count >= 0
          /\ metrics.circular_dependencies >= 0
          /\ metrics.srp_violations >= 0
          /\ metrics.module_count >= 0
          /\ metrics.depth_of_inheritance.num >= 0
          /\ LET r == ArchitectureMetrics(metrics)
             IN  /\ r.score \in 0..100
                 /\ r.coupling_score \in 0..100
                 /\ r.cohesion_score \in 0..100
    /\ (overall_metrics # << >> /\ dimensions_in_range) =>
          overall_metrics.overall_score \in 0..100

\* both ends of the scale are met: an architecture score of 10 from more
\* patterns than the bonus counts, and an overall score of 10 from full marks
C18_Witness ==
    /\ apc = "metrics"
    /\ FracEq(metrics.overall_score, Frac(10, 1))
    /\ Cardinality(design_patterns_found) > 10
    /\ overall_metrics # << >>
    /\ dimensions_in_range
    /\ overall_metrics.overall_score = 100

\* intra- and inter-group dependencies of a group, those on known modules only
intra_known(modules, deps, known) ==
    sum_over([i \in 1..Len(modules) |->
                 Cardinality({d \in GetSet(deps, modules[i]) :
                                 d \in known /\ d \in names_in(modules)})],
             1..Len(modules))

inter_known(modules, deps, known) ==
    sum_over([i \in 1..Len(modules) |->
                 Cardinality({d \in GetSet(deps, modules[i]) :
                                 d \in known /\ d \notin names_in(modules)})],
             1..Len(modules))

\* the groups with at least 2 modules and a dependency to count
qualifying_groups(packages, deps, known) ==
    {p \in DOMAIN packages :
        /\ Len(packages[p]) >= 2
        /\ intra_known(packages[p], deps, known) + inter_known(packages[p], deps, known) > 0}

cohesion_over_known(packages, deps, known) ==
    LET groups == qualifying_groups(packages, deps, known)
        total  == frac_sum([p \in groups |->
                              Frac(intra_known(packages[p], deps, known),
                                   intra_known(packages[p], deps, known)
                                     + inter_known(packages[p], deps, known))],
                           groups)
    IN  IF groups # {}
        THEN Frac(10 * total.num, total.den * Cardinality(groups))
        ELSE Frac(5, 1)

\* C19: cohesion_score is 10 times the mean, over the directory groups with at
\* least 2 modules, of intra/(intra+inter), where only dependencies on known
\* modules of the analysed set are counted (a reference to an external library
\* adds to neither); it is 5.0 when no group qualifies.
C19_CohesionCountsKnownModules ==
    apc = "metrics" =>
        FracEq(metrics.cohesion_score,
               cohesion_over_known(package_structure, module_dependencies,
                                   DOMAIN dependency_graph))

----------------------------------------------------------------------------
(* Claims about the dependency extraction *)

\* the allow-listed identifiers as text
builtin_names == {dotted(b) : b \in builtin_modules}

\* C20: no dependency set returned by _extract_dependencies holds an
\* identifier of the built-in allow-list: a reference is normalised to its
\* root identifier (com./org. names keep the dotted form) and one whose
\* normalised form is allow-listed, os.path for os, is dropped.
C20_NoBuiltinDependency ==
    apc # "start" =>
        /\ \A i \in 1..Len(source_files) :
              _extract_dependencies(source_files[i].references) \cap builtin_names = {}
        /\ \A m \in DOMAIN dependency_graph : dependency_graph[m] \cap builtin_names = {}

----------------------------------------------------------------------------
(* Claims about the aggregation *)

\* clamp(x, 0, 10), in tenths
clamp_tenths(x) == IF x < 0 THEN 0 ELSE IF x > 100 THEN 100 ELSE x

\* round(0.25 q + 0.20 a + 0.15 clamp(10 - s, 0, 10) + 0.20 t + 0.10 d
\* + 0.10 u, 1), the six scores and the result in tenths
aggregate(q, a, s, t, d, u) ==
    round_1(Frac(25 * q + 20 * a + 15 * clamp_tenths(100 - s)
                   + 20 * t + 10 * d + 10 * u, 1000))

all_present == \A n \in DOMAIN dimensions : dimensions[n].present

\* C21: calculate_overall_metrics returns overall_score = round(0.25 quality
\* + 0.20 architecture + 0.15 clamp(10 - smell severity, 0, 10) + 0.20 tests
\* + 0.10 docs + 0.10 sustainability, 1), the weights adding up to 1.0; for
\* quality 8.0, architecture 6.0, severity 2.0, tests 7.0, docs 5.0 and
\* sustainability 9.0 the result is 7.2.  (The severity handed in is never
\* negative: the smell analyzer returns max(0, .).)
C21_WeightedOverallScore ==
    /\ weights.code_quality + weights.architecture + weights.code_smells
         + weights.tests + weights.docs + weights.sustainability = 100
    /\ (overall_metrics # << >> /\ all_present) =>
          overall_metrics.overall_score =
              aggregate(dimensions.code_quality.value, dimensions.architecture.value,
                        dimensions.code_smells.value, dimensions.tests.value,
                        dimensions.docs.value, dimensions.sustainability.value)
    /\ (overall_metrics # << >> /\ dimensions = ExampleDimensions) =>
          overall_metrics.overall_score = 72

\* the example has been aggregated
C21_Witness ==
    /\ dimensions = ExampleDimensions
    /\ overall_metrics # << >>
    /\ overall_metrics.overall_score = 72

----------------------------------------------------------------------------
(* Claims about the recommendations *)

\* the eleven rules in evaluation order: the attribute each reads, its
\* priority and the description of its recommendation
rules ==
    <<[dimension |-> "code_quality", attribute |-> "overall_score", priority |-> "high",
       description |-> "Reduce cyclomatic complexity in complex functions"],
      [dimension |-> "code_quality", attribute |-> "comment_density", priority |-> "medium",
       description |-> "Increase code documentation and comments"],
      [dimension |-> "architecture", attribute |-> "circular_dependencies", priority |-> "critical",
       description |-> "Resolve circular dependencies between modules"],
      [dimension |-> "architecture", attribute |-> "coupling_score", priority |-> "high",
       description |-> "Reduce coupling between modules"],
      [dimension |-> "code_smells", attribute |-> "total_count", priority |-> "high",
       description |-> "Address high-priority code smells in hotspot files"],
      [dimension |-> "tests", attribute |-> "coverage_score", priority |-> "high",
       description |-> "Increase test coverage, especially for critical modules"],
      [dimension |-> "tests", attribute |-> "test_to_source_ratio", priority |-> "medium",
       description |-> "Add more comprehensive test cases"],
      [dimension |-> "documentation", attribute |-> "score", priority |-> "medium",
       description |-> "Improve API documentation and code comments"],
      [dimension |-> "documentation", attribute |-> "has_contributing_guide", priority |-> "low",
       description |-> "Add CONTRIBUTING.md guide for new contributors"],
      [dimension |-> "sustainability", attribute |-> "score", priority |-> "medium",
       description |-> "Increase commit frequency and contributor diversity"],
      [dimension |-> "sustainability", attribute |-> "bus_factor", priority |-> "high",
       description |-> "Reduce bus factor by spreading knowledge across team"]>>

\* the metric rule k reads is there
has_data(m, k) ==
    /\ m.present
    /\ hasattr(m.attrs[rules[k].dimension], rules[k].attribute)

\* something a rule reads is missing
lacks_data(m) == \E k \in 1..Len(rules) : ~has_data(m, k)

\* the recommendations of rule k in the returned list
emitted(k) ==
    SelectSeq(recommendations, LAMBDA r : r.description = rules[k].description)

call_over == rpc \in {"returned", "raised"}

\* C22: generate_recommendations never raises when a sub-metric is missing:
\* if the metrics object is None, or one of its six records is None or lacks
\* an attribute a rule reads, it returns a list in which no recommendation
\* fires for the missing data.
C22_MissingDataNeverRaises ==
    (call_over /\ lacks_data(metrics_arg)) =>
        /\ rpc = "returned"
        /\ \A k \in 1..Len(rules) :
              ~has_data(metrics_arg, k) => emitted(k) = << >>

\* the value rule k reads
metric(m, k) == m.attrs[rules[k].dimension].attrs[rules[k].attribute]

\* the strict threshold of rule k holds
threshold_holds(m, k) ==
    LET v == metric(m, k)
    IN  CASE k = 1 -> v < 60
          [] k = 2 -> v < 10
          [] k = 3 -> v > 0
          [] k = 4 -> v > 70
          [] k = 5 -> v > 50
          [] k = 6 -> v < 70
          [] k = 7 -> v < 30
          [] k = 8 -> v < 60
          [] k = 9 -> v = FALSE
          [] k = 10 -> v < 60
          [] k = 11 -> v < 3

\* seq is the first at most 5 entries of files
is_first_five(seq, files) ==
    /\ Len(seq) <= 5
    /\ Len(seq) <= Len(files)
    /\ \A i \in 1..Len(seq) : seq[i] = files[i]
    /\ Len(seq) = 5 \/ Len(seq) = Len(files)

priority_rank(r) ==
    CASE r.priority = "critical" -> 0
      [] r.priority = "high" -> 1
      [] r.priority = "medium" -> 2
      [] r.priority = "low" -> 3

\* the place of the rule of r in the evaluation order
rule_index(r) == CHOOSE k \in 1..Len(rules) : rules[k].description = r.description

\* circular_dependencies = 1, quality score 5, every other rule passing
ordering_example(m) ==
    /\ ~lacks_data(m)
    /\ metric(m, 3) = 1
    /\ metric(m, 1) = 50
    /\ \A k \in 1..Len(rules) \ {1, 3} : ~threshold_holds(m, k)

\* C24: the list returned by generate_recommendations is ordered by priority
\* rank CRITICAL < HIGH < MEDIUM < LOW (no entry is preceded by one of lower
\* priority) and entries of equal priority are in rule-evaluation order; with
\* circular_dependencies = 1, quality score 5 and every other rule passing the
\* first entry is the CRITICAL circular-dependency recommendation and the
\* second the HIGH quality recommendation.
C24_OrderedByPriorityStable ==
    rpc = "returned" =>
        /\ \A i, j \in 1..Len(recommendations) :
              i < j =>
                 /\ priority_rank(recommendations[i]) <= priority_rank(recommendations[j])
                 /\ priority_rank(recommendations[i]) = priority_rank(recommendations[j])
                       => rule_index(recommendations[i]) < rule_index(recommendations[j])
        /\ ordering_example(metrics_arg) =>
              /\ Len(recommendations) = 2
              /\ recommendations[1].priority = "critical"
              /\ recommendations[1].description = rules[3].description
              /\ recommendations[2].priority = "high"
              /\ recommendations[2].description = rules[1].description

\* the list of the example has been returned
C24_Witness ==
    /\ rpc = "returned"
    /\ ordering_example(metrics_arg)
    /\ Len(recommendations) = 2
    /\ recommendations[1].priority = "critical"

\* the dependency edges of a graph
edges(g) == UNION {{<<m, d>> : d \in g[m]} : m \in DOMAIN g}

\* the record the architecture analyzer computed went into the metrics
from_analyzer ==
    /\ apc = "metrics"
    /\ rpc # "idle"
    /\ metrics_arg.attrs.architecture = Record(ArchitectureMetrics(metrics))

\* scores above their thresholds, no circular dependency, at most 50 smells,
\* bus factor at least 3
healthy(m) ==
    /\ ~lacks_data(m)
    /\ metric(m, 1) >= 60
    /\ metric(m, 6) >= 70
    /\ metric(m, 8) >= 60
    /\ metric(m, 10) >= 60
    /\ metric(m, 3) = 0
    /\ metric(m, 5) <= 50
    /\ metric(m, 11) >= 3

\* C25: for a healthy repository no CRITICAL or HIGH recommendation is
\* produced: when the quality, test, documentation and sustainability scores
\* are above their thresholds, there are no circular dependencies, at most 50
\* smells, bus factor >= 3, and the architecture record is the one the
\* analyzer computes for a loosely coupled module graph (few or no dependency
\* edges), every entry returned has priority LOW or MEDIUM.
C25_HealthyRepositoryNoHighPriority ==
    (call_over /\ from_analyzer /\ healthy(metrics_arg)
       /\ Cardinality(edges(dependency_graph)) <= 2) =>
        /\ rpc = "returned"
        /\ \A i \in 1..Len(recommendations) :
              recommendations[i].priority \in {"low", "medium"}

----------------------------------------------------------------------------
(* Claims about the order of the invocations *)

\* the names of the steps invoked before the k-th invocation
invoked_before(k) == {calls[j].name : j \in 1..(k - 1)}

\* the step at index i is not completed and its dependencies all are, given
\* the set done of completed names
eligible(i, done) ==
    /\ analysis_steps[i].name \notin done
    /\ analysis_steps[i].dependencies \subseteq done

\* C26: the order of the invocations is fully determined by the registration
\* order and the dependency lists: each step invoked is the earliest-registered
\* step that is not completed and whose dependencies are all completed, the
\* completed steps being those invoked before it; the scan starts again from
\* the first registered step after every invocation.
C26_EarliestEligibleStepInvoked ==
    \A k \in 1..Len(calls) :
        /\ calls[k].completed = invoked_before(k)
        /\ eligible(calls[k].index, invoked_before(k))
        /\ \A i \in 1..(calls[k].index - 1) : ~eligible(i, invoked_before(k))

\* an invocation was followed by one of a step registered earlier: the scan
\* went back to the front
C26_Witness ==
    /\ pc = "returned"
    /\ Len(calls) = MaxSteps
    /\ \E k \in 1..(Len(calls) - 1) : calls[k + 1].index < calls[k].index
    /\ \E k \in 1..(Len(calls) - 1) : calls[k + 1].index > calls[k].index + 1

\* the passes of the while loop made so far: one for every invocation, and
\* the one that found nothing to invoke
scans == Len(calls) + (IF pc = "unresolvable" THEN 1 ELSE 0)

\* C27: with n registered steps execute_analysis makes at most n scans of the
\* step list: exactly n, each invoking one step, when the steps form a valid
\* graph, and at most n in total, the last invoking nothing and raising, when
\* they do not.
C27_AtMostOneScanPerStep ==
    /\ scans <= Len(analysis_steps)
    /\ pc = "returned" =>
          /\ scans = Len(analysis_steps)
          /\ \A i \in 1..Len(analysis_steps) : times_called(i) = 1
    /\ (pc \in {"returned", "unresolvable"} /\ valid_dag) => pc = "returned"
    /\ pc = "unresolvable" => Len(calls) < Len(analysis_steps)

\* the last of n scans found nothing to invoke after n - 1 invocations
C27_Witness ==
    /\ pc = "unresolvable"
    /\ Len(analysis_steps) = MaxSteps
    /\ scans = MaxSteps

\* C28: there is no check of the dependencies before the run: when they cannot
\* be resolved execute_analysis raises, returning no result map, but only
\* after it has invoked exactly once each, in dependency order, every step
\* whose dependencies can all be satisfied; a step that depends, directly or
\* not, on a cycle or on an unregistered name is never invoked.
C28_RunnableStepsInvokedBeforeRaise ==
    /\ \A k \in 1..Len(calls) :
          /\ ~blocked(calls[k].name)
          /\ analysis_steps[calls[k].index].dependencies \subseteq invoked_before(k)
    /\ pc = "unresolvable" =>
          /\ \A i \in 1..Len(analysis_steps) :
                times_called(i) = (IF blocked(analysis_steps[i].name) THEN 0 ELSE 1)
          /\ \E i \in 1..Len(analysis_steps) : blocked(analysis_steps[i].name)
          /\ DOMAIN results = {n \in registered_names : ~blocked(n)}
    /\ (pc = "returned" /\ unique_names) =>
          \A n \in registered_names : ~blocked(n)

\* the call has raised after invoking two steps or more, a step that depends
\* on a blocked one without being on a cycle or naming an unregistered step
\* left out
C28_Witness ==
    /\ pc = "unresolvable"
    /\ Len(calls) >= 2
    /\ \E n \in registered_names :
          /\ blocked(n)
          /\ ~on_cycle(n)
          /\ declared(n) \subseteq registered_names

----------------------------------------------------------------------------
(* Claims about the progress object *)

\* a percentage below another, and the percentage k/n*100
progress_below(a, b) == a.num * b.den < b.num * a.den

percent(k, n) == Frac(100 * k, n)

\* C29: with a progress object attached, execute_analysis sets current_step
\* and current_progress before it invokes a step and never after: the object
\* always shows what the last step invoked found on it; the progress set
\* before the k-th invoked step (k from 0) of n is k/n*100, so it is 0 for the
\* first step, strictly increasing, and never reaches 100, even after the
\* last step has completed.
C29_ProgressSetBeforeEachStep ==
    api_instance.attached =>
        /\ \A k \in 1..Len(calls) :
              /\ calls[k].api.current_step = step_display(calls[k].name)
              /\ FracEq(calls[k].api.current_progress,
                        percent(k - 1, Len(analysis_steps)))
              /\ progress_below(calls[k].api.current_progress, Frac(100, 1))
              /\ k > 1 => progress_below(calls[k - 1].api.current_progress,
                                         calls[k].api.current_progress)
        /\ calls # << >> => api_instance = calls[Len(calls)].api
        /\ calls = << >> => api_instance = FreshApi
        /\ progress_below(api_instance.current_progress, Frac(100, 1))

\* every step of four has completed and the map is returned with the
\* progress object at 75
C29_Witness ==
    /\ api_instance.attached
    /\ pc = "returned"
    /\ Len(calls) = MaxSteps
    /\ FracEq(calls[1].api.current_progress, Frac(0, 1))
    /\ FracEq(api_instance.current_progress, Frac(75, 1))

----------------------------------------------------------------------------
(* Claims about what execute_analysis leaves alone *)

\* every entry of the map before is in the map after, with the same value
extends(before, after) ==
    /\ DOMAIN before \subseteq DOMAIN after
    /\ \A n \in DOMAIN before : after[n] = before[n]

\* an invocation was handed a capped copy of the source_files result
capped_copy(k) ==
    /\ "source_files" \in DOMAIN calls[k].results
    /\ "source_files" \in DOMAIN calls[k].kwargs
    /\ ListLen(calls[k].results["source_files"]) > max_files
    /\ ListLen(calls[k].kwargs["source_files"]) = max_files

\* C30: execute_analysis leaves the caller's context mapping and the list of
\* registered steps unchanged, and the results map is append-only during a
\* call: with unique step names a recorded result is never overwritten,
\* removed or truncated (the cap of 1000 entries applies to a copy handed to
\* the step, so the returned map holds the full source_files result).
C30_ContextAndStepsUntouchedResultsAppendOnly ==
    /\ [][pc = "running" =>
            /\ context' = context
            /\ analysis_steps' = analysis_steps
            /\ unique_names => extends(results, results')]_vars
    /\ [](unique_names =>
            \A k \in 1..Len(calls) :
                /\ extends(calls[k].results, results)
                /\ capped_copy(k) =>
                      ListLen(results["source_files"]) = LongLen)

\* the map has been returned after a step was handed the first 1000 of the
\* 1500 files an earlier step returned
C30_Witness ==
    /\ pc = "returned"
    /\ unique_names
    /\ \E k \in 1..Len(calls) : capped_copy(k)
    /\ ListLen(results["source_files"]) = LongLen

====
